---------------------------- MODULE Spec2Model ----------------------------
(***************************************************************************)
(* Panorama stitching: the robust estimator (RANSAC::findHomography), the  *)
(* HomographyEstimator, the pairwise stitching pipeline, the experiment    *)
(* runner and the blender, modelled from the C++ sources.                  *)
(*                                                                         *)
(* Numbers.  Coordinates, thresholds and matrix entries are integers.  A   *)
(* homography is the 9-tuple <<h00,h01,h02,h10,h11,h12,h20,h21,h22>> or    *)
(* Empty (cv::Mat()).  In the estimator a tuple stands for the matrix up   *)
(* to a common nonzero factor (the code divides by h22, which changes no   *)
(* projection).  Confidence is in permille.                                *)
(***************************************************************************)
EXTENDS Integers, Sequences, FiniteSets, TLC

(***************************************************************************)
(* Bounds of the model.                                                    *)
(***************************************************************************)
MaxSamples == 4          \* cap on the samples one findHomography call draws
MaxIterCap == 3          \* largest max_iterations argument tried

Empty == <<>>

(***************************************************************************)
(* RANSAC::findHomography  (src/src/feature_matching/ransac.cpp)           *)
(***************************************************************************)
VARIABLE driver         \* the entry point the environment is calling into

VARIABLES
    rpc,                 \* position inside findHomography
    points1, points2,    \* the two point lists of the call
    threshold,           \* reprojection_threshold argument
    reprojection_threshold_, confidence_, max_iterations_,   \* members
    max_iterations,      \* the by-value argument (line 74 writes it)
    iterations, best_inliers, best_H, best_mask,
    samples,             \* number of 4-point samples drawn so far
    degenerate_seen,     \* number of samples rejected by the DLT
    pre_refine,          \* best model as it was when the loop ended
    result,              \* the returned RANSACResult
    first_run,           \* what an earlier call with the same arguments returned
    evaluated,           \* the non-degenerate candidates H of the call, in order
    reprojection_error   \* what computeReprojectionError returned last in this call

ransacVars == <<rpc, points1, points2, threshold, reprojection_threshold_,
                confidence_, max_iterations_, max_iterations, iterations,
                best_inliers, best_H, best_mask, samples, degenerate_seen,
                pre_refine, result, first_run, evaluated, reprojection_error>>


\* Correspondence lists the estimator is called with.
Scenarios ==
    { \* three collinear points mapped to non-collinear ones: every sample degenerate
      [p1 |-> << <<0,0>>, <<1,0>>, <<2,0>>, <<0,1>> >>,
       p2 |-> << <<0,0>>, <<1,0>>, <<0,1>>, <<1,1>> >>],
      \* a pure translation, all correspondences consistent
      [p1 |-> << <<0,0>>, <<2,0>>, <<0,2>>, <<2,2>>, <<1,3>> >>,
       p2 |-> << <<1,0>>, <<3,0>>, <<1,2>>, <<3,2>>, <<2,3>> >>],
      \* the same translation with one outlier (a duplicated target point)
      [p1 |-> << <<0,0>>, <<2,0>>, <<0,2>>, <<2,2>>, <<1,3>> >>,
       p2 |-> << <<1,0>>, <<3,0>>, <<1,2>>, <<3,2>>, <<1,0>> >>],
      \* degenerate samples and models supported by a single correspondence
      [p1 |-> << <<0,0>>, <<2,0>>, <<0,2>>, <<2,2>>, <<1,1>> >>,
       p2 |-> << <<0,0>>, <<2,0>>, <<0,2>>, <<2,2>>, <<3,1>> >>],
      \* a best model whose four inliers are not its own sample
      [p1 |-> << <<0,1>>, <<1,0>>, <<3,3>>, <<3,1>>, <<3,2>> >>,
       p2 |-> << <<2,1>>, <<1,1>>, <<3,1>>, <<2,0>>, <<1,0>> >>],
      \* fewer than four correspondences
      [p1 |-> << <<0,0>>, <<2,0>>, <<0,2>> >>,
       p2 |-> << <<1,0>>, <<3,0>>, <<1,2>> >>],
      \* lists of unequal length
      [p1 |-> << <<0,0>>, <<2,0>>, <<0,2>>, <<2,2>> >>,
       p2 |-> << <<1,0>>, <<3,0>>, <<1,2>> >>] }

Thresholds == {1, 2}
Confidences == {500, 995}

\* Values an int that was never written may hold (RANSACResult has no
\* member initializers and `RANSACResult result;` default-initializes it).
IndeterminateInts == {-1, 0, 7}

\* The matrices a minimal solve or a refinement can produce on Scenarios:
\* the exact null vectors of the 8x9 DLT systems of all 4-point samples.
Homographies ==
    { <<0, 1, 0, 0, 1, 0, 0, 1, 0>>,
      <<1, 0, 1, 0, 1, 0, 0, 0, 1>>,
      <<-1, -1, 2, 0, 0, 0, -1, -1, 2>>,
      <<-1, 0, 2, 0, 0, 0, -1, 0, 2>>,
      <<0, -1, 2, 0, 0, 0, 0, -1, 2>>,
      <<-5, 3, -2, -6, -2, 12, -3, 1, 2>>,
      <<1, 0, 0, 0, 1, 0, 0, 0, 1>>,
      <<0, 0, 0, 0, 0, 0, -1, -1, 2>>,
      <<-2, 2, 0, 0, 0, 0, -1, 1, 0>>,
      <<0, 0, 0, -2, 2, 0, -1, 1, 0>>,
      <<-2, -2, 4, -2, -2, 4, -1, -1, 2>>,
      <<-2, 3, 3, -1, 1, 2, -1, 1, 2>>,
      <<-11, 9, 15, -5, 3, 9, -5, 3, 9>>,
      <<-6, 2, 10, -2, 0, 6, -3, -1, 7>>,
      <<-2, 0, 6, -1, 0, 3, -1, 0, 3>>,
      <<-1, 0, 3, -1, 0, 3, -1, 0, 3>> }

\* Rows 2i and 2i+1 of the DLT coefficient matrix applied to the vector H.
DLTRowX(p, q, H) ==
    p[1]*H[1] + p[2]*H[2] + H[3] - q[1]*p[1]*H[7] - q[1]*p[2]*H[8] - q[1]*H[9]

DLTRowY(p, q, H) ==
    p[1]*H[4] + p[2]*H[5] + H[6] - q[2]*p[1]*H[7] - q[2]*p[2]*H[8] - q[2]*H[9]

\* The right singular vector of the smallest singular value of the 8x9
\* matrix A is a null vector of A: the candidates for vt.row(8).
SVDLastRow(pts1, pts2, sample) ==
    { H \in Homographies :
        \A i \in sample : DLTRowX(pts1[i], pts2[i], H) = 0
                       /\ DLTRowY(pts1[i], pts2[i], H) = 0 }

\* The degeneracy test of computeHomographyDLT on the solved vector.
DLTAccept(V) == IF V[9] = 0 THEN Empty ELSE V

\* The 4-element index sets the sampling loop can end with.
SampleSets(n) == { s \in SUBSET (1..n) : Cardinality(s) = 4 }

Sq(x) == x * x

\* One entry of the mask of findInliers: the projection of pts1[i] is
\* (X/W, Y/W); a zero W gives inf or NaN, for which `error < threshold` fails.
IsInlier(H, p, q, t) ==
    LET X == H[1]*p[1] + H[2]*p[2] + H[3]
        Y == H[4]*p[1] + H[5]*p[2] + H[6]
        W == H[7]*p[1] + H[8]*p[2] + H[9]
    IN  W # 0 /\ Sq(X - q[1]*W) + Sq(Y - q[2]*W) < Sq(t) * Sq(W)

findInliers(H, pts1, pts2, t) ==
    [i \in 1..Len(pts1) |-> IsInlier(H, pts1[i], pts2[i], t)]

\* RANSAC::computeReprojectionError: -1 for an empty homography or an empty
\* selection; otherwise the mean of sqrt(dx*dx + dy*dy) over the selected
\* pairs, where x and y are quotients by the projected denominator with no
\* test of it: a zero denominator makes the term, and the mean, Inf or NaN.
computeReprojectionError(homography, pts1, pts2, inlier_mask) ==
    LET W(i) == homography[7]*pts1[i][1] + homography[8]*pts1[i][2] + homography[9]
        counted == { i \in 1..Len(pts1) : inlier_mask[i] }
    IN  IF homography = Empty \/ counted = {} THEN "minus_one"
        ELSE IF \E i \in counted : W(i) = 0 THEN "not_finite"
        ELSE "finite"

\* std::count(mask.begin(), mask.end(), true)
CountTrue(mask) == Cardinality({i \in 1..Len(mask) : mask[i]})

\* static_cast<int>(log(1-p)/log(1-w^4)) + 1 for w = k/n, 0 < w < 1.
AdaptiveIterations(p, k, n) ==
    LET table == [c \in Confidences |->
          IF c = 995
          THEN <<Empty, Empty, Empty,
                 <<1354, 83, 14>>,
                 <<3309, 205, 39, 11>>,
                 <<6864, 427, 83, 25, 9>> >>
          ELSE <<Empty, Empty, Empty,
                 <<178, 11, 2>>,
                 <<433, 27, 5, 2>>,
                 <<898, 56, 11, 4, 2>> >>]
    IN  table[p][n][k]

Min(a, b) == IF a < b THEN a ELSE b

NoResult == [called |-> FALSE]
NoPre == [H |-> Empty, mask |-> <<>>, inliers |-> 0, refined |-> FALSE]

\* State after RANSAC::RANSAC().
InitRansac ==
    /\ rpc = "idle"
    /\ points1 = <<>> /\ points2 = <<>>
    /\ threshold = 3
    /\ reprojection_threshold_ = 3
    /\ confidence_ = 995
    /\ max_iterations_ = 2000
    /\ max_iterations = 2000
    /\ iterations = 0 /\ best_inliers = 0 /\ best_H = Empty /\ best_mask = <<>>
    /\ samples = 0 /\ degenerate_seen = 0
    /\ pre_refine = NoPre
    /\ result = NoResult
    /\ first_run = NoResult
    /\ evaluated = <<>>
    /\ reprojection_error = "unset"

\* Lines 19-23: the guard on the input sizes; `result` is returned as
\* default-initialized, so its int member holds an indeterminate value.
RansacCallTooFew ==
    /\ driver = "ransac"
    /\ rpc = "idle"
    /\ \E sc \in Scenarios, t \in Thresholds, c \in Confidences, m \in 1..MaxIterCap,
          garbage \in IndeterminateInts :
        /\ Len(sc.p1) < 4 \/ Len(sc.p1) # Len(sc.p2)
        /\ points1' = sc.p1 /\ points2' = sc.p2
        /\ threshold' = t
        /\ max_iterations' = m
        /\ result' = [called |-> TRUE, early |-> TRUE, homography |-> Empty,
                      inlier_mask |-> <<>>, num_inliers |-> garbage,
                      num_iterations |-> garbage]
        /\ rpc' = "done"
    /\ UNCHANGED <<reprojection_threshold_, confidence_, max_iterations_,
                   iterations, best_inliers, best_H, best_mask, samples,
                   degenerate_seen, pre_refine, first_run, evaluated,
                   reprojection_error>>

\* Lines 25-42: the members are overwritten and the loop state is set up.
RansacCall ==
    /\ driver = "ransac"
    /\ rpc = "idle"
    /\ \E sc \in Scenarios, t \in Thresholds, c \in Confidences, m \in 1..MaxIterCap :
        /\ ~ (Len(sc.p1) < 4 \/ Len(sc.p1) # Len(sc.p2))
        /\ points1' = sc.p1 /\ points2' = sc.p2
        /\ threshold' = t
        /\ reprojection_threshold_' = t
        /\ confidence_' = c
        /\ max_iterations_' = m
        /\ max_iterations' = m
        /\ best_mask' = [i \in 1..Len(sc.p1) |-> FALSE]
    /\ iterations' = 0 /\ best_inliers' = 0 /\ best_H' = Empty
    /\ samples' = 0 /\ degenerate_seen' = 0
    /\ rpc' = "loop"
    /\ evaluated' = <<>>
    /\ UNCHANGED <<pre_refine, result, first_run, reprojection_error>>

\* A candidate that ties the best count replaces it.
ImprovesOrTies(n_inliers, best) == n_inliers >= best

\* Line 66: `if (n_inliers > best_inliers)`.
Improves(n_inliers, best) == n_inliers > best

\* Lines 44-79: one pass of the while loop.  `continue` on an empty H jumps
\* to the loop test without reaching iterations++.
RansacIterate ==
    /\ driver = "ransac"
    /\ rpc = "loop"
    /\ iterations < max_iterations_
    /\ samples < MaxSamples
    /\ \E sample \in SampleSets(Len(points1)) :
       \E V \in SVDLastRow(points1, points2, sample) :
         LET H == DLTAccept(V)
             inlier_mask == findInliers(H, points1, points2, threshold)
             n_inliers == CountTrue(inlier_mask)
             n_points == Len(points1)
         IN  /\ samples' = samples + 1
             /\ IF H = Empty
                THEN /\ degenerate_seen' = degenerate_seen + 1
                     /\ UNCHANGED <<iterations, best_inliers, best_H, best_mask,
                                    max_iterations, evaluated>>
                ELSE /\ iterations' = iterations + 1
                     /\ evaluated' = Append(evaluated, H)
                     /\ UNCHANGED degenerate_seen
                     /\ IF Improves(n_inliers, best_inliers)
                        THEN /\ best_inliers' = n_inliers
                             /\ best_H' = H
                             /\ best_mask' = inlier_mask
                             /\ max_iterations' =
                                  IF n_inliers > 0 /\ n_inliers < n_points
                                  THEN Min(AdaptiveIterations(confidence_, n_inliers, n_points),
                                           max_iterations_)
                                  ELSE max_iterations
                        ELSE UNCHANGED <<best_inliers, best_H, best_mask, max_iterations>>
    /\ UNCHANGED <<rpc, points1, points2, threshold, reprojection_threshold_,
                   confidence_, max_iterations_, pre_refine, result, first_run,
                   reprojection_error>>

\* What cv::findHomography(inlier_pts1, inlier_pts2, 0) can hand back for
\* the inliers of mask: an empty matrix, or the least-squares matrix
\* normalized by its h22.  When one matrix maps every inlier pair exactly
\* (always the case for four pairs) the least-squares matrix is that one;
\* otherwise it is left open.
RefineOutcomes(pts1, pts2, mask) ==
    LET I == {i \in 1..Len(mask) : mask[i]}
        exact == SVDLastRow(pts1, pts2, I)
    IN  IF exact # {}
        THEN {H \in exact : H[9] # 0} \cup {Empty}
        ELSE {H \in Homographies : H[9] # 0} \cup {Empty}

\* A refinement that keeps the inlier count of the unrefined model.
RefineStaleCount(bH, bmask, binl, refined_H, pts1, pts2, t) ==
    IF binl >= 4 /\ refined_H # Empty
    THEN [H |-> refined_H,
          mask |-> findInliers(refined_H, pts1, pts2, t),
          inliers |-> binl]
    ELSE [H |-> bH, mask |-> bmask, inliers |-> binl]

\* Lines 81-96 on the best model, given the refined matrix.
Refine(bH, bmask, binl, refined_H, pts1, pts2, t) ==
    IF binl >= 4 /\ refined_H # Empty
    THEN LET m == findInliers(refined_H, pts1, pts2, t)
         IN  [H |-> refined_H, mask |-> m, inliers |-> CountTrue(m)]
    ELSE [H |-> bH, mask |-> bmask, inliers |-> binl]

\* Lines 81-108: the loop test failed; refine, fill the result and return.
RansacFinish ==
    /\ driver = "ransac"
    /\ rpc = "loop"
    /\ ~ (iterations < max_iterations_)
    /\ \E refined_H \in RefineOutcomes(points1, points2, best_mask) :
        LET r == Refine(best_H, best_mask, best_inliers, refined_H,
                        points1, points2, threshold)
        IN  /\ pre_refine' = [H |-> best_H, mask |-> best_mask,
                              inliers |-> best_inliers,
                              refined |-> (best_inliers >= 4 /\ refined_H # Empty)]
            /\ best_H' = r.H
            /\ best_mask' = r.mask
            /\ best_inliers' = r.inliers
            /\ result' = [called |-> TRUE, early |-> FALSE, homography |-> r.H,
                          inlier_mask |-> r.mask, num_inliers |-> r.inliers,
                          num_iterations |-> iterations]
            /\ reprojection_error' =
                 computeReprojectionError(r.H, points1, points2, r.mask)
    /\ rpc' = "done"
    /\ UNCHANGED <<points1, points2, threshold, reprojection_threshold_,
                   confidence_, max_iterations_, max_iterations, iterations,
                   samples, degenerate_seen, first_run, evaluated>>

\* A second call of findHomography on the same object with the arguments of
\* the first (lines 25-42).  Lines 37-39 seed the generator of every call
\* from std::random_device, so the call draws its samples afresh.
RansacRepeat ==
    /\ driver = "ransac"
    /\ rpc = "done"
    /\ ~ result.early
    /\ first_run = NoResult
    /\ first_run' = [called |-> TRUE, result |-> result, pre |-> pre_refine]
    /\ reprojection_threshold_' = threshold
    /\ max_iterations' = max_iterations_
    /\ best_mask' = [i \in 1..Len(points1) |-> FALSE]
    /\ iterations' = 0 /\ best_inliers' = 0 /\ best_H' = Empty
    /\ samples' = 0 /\ degenerate_seen' = 0
    /\ evaluated' = <<>>
    /\ reprojection_error' = "unset"
    /\ rpc' = "loop"
    /\ UNCHANGED <<points1, points2, threshold, confidence_, max_iterations_,
                   pre_refine, result>>

\* A client's call of the public computeReprojectionError with the returned
\* homography, the points of the call and a mask of its choosing: the
\* returned one or one that selects every pair.
ComputeErrorCall ==
    /\ driver = "ransac"
    /\ rpc = "done"
    /\ ~ result.early
    /\ \E mask \in {result.inlier_mask, [i \in 1..Len(points1) |-> TRUE]} :
         reprojection_error' =
             computeReprojectionError(result.homography, points1, points2, mask)
    /\ UNCHANGED <<rpc, points1, points2, threshold, reprojection_threshold_,
                   confidence_, max_iterations_, max_iterations, iterations,
                   best_inliers, best_H, best_mask, samples, degenerate_seen,
                   pre_refine, result, first_run, evaluated>>

(***************************************************************************)
(* HomographyEstimator  (src/src/homography/homography_estimator.cpp)      *)
(***************************************************************************)
VARIABLES
    last_result_,        \* HomographyEstimator::last_result_
    inlier_matches,      \* the caller's output vector
    est_matches,         \* the matches argument of the latest call
    est_ret,             \* the homography the latest call returned
    est_calls,           \* number of estimateHomography calls made
    ransac_threshold_,   \* HomographyEstimator::ransac_threshold_, in 1/100 pixel
    reprojection_threshold   \* the threshold the latest estimation ran with

estVars == <<last_result_, inlier_matches, est_matches, est_ret, est_calls,
             ransac_threshold_, reprojection_threshold>>

MaxEstCalls == 2

MIN_INLIERS_REQUIRED == 20

\* The thresholds of config.h in 1/100 pixel.
DEFAULT_RANSAC_THRESHOLD_CENTI == 300
MIN_RANSAC_THRESHOLD_CENTI == 10
MAX_RANSAC_THRESHOLD_CENTI == 5000

\* Number of keypoints of either image in the estimator's calls.
NumKeypoints == 30

\* A match is <<queryIdx, trainIdx>>.
ValidMatches(n) == [i \in 1..n |-> <<i - 1, i - 1>>]

MatchLists ==
    { ValidMatches(3),
      ValidMatches(5),
      [ValidMatches(5) EXCEPT ![2] = <<NumKeypoints, 1>>],
      [ValidMatches(4) EXCEPT ![1] = <<0, -1>>] }

\* Lines 39-45: the indices of the matches whose keypoint indices are in range.
ValidIndices(matches, nkp1, nkp2) ==
    { i \in 1..Len(matches) :
        /\ matches[i][1] >= 0 /\ matches[i][1] < nkp1
        /\ matches[i][2] >= 0 /\ matches[i][2] < nkp2 }

\* Inlier masks cv::findHomography can write for n point pairs: every 0/1
\* column for short lists, the masks with a leading run of ones for long ones.
LibMasks(n) ==
    IF n <= 5
    THEN [1..n -> BOOLEAN]
    ELSE { [i \in 1..n |-> i <= k] : k \in {0, 4, MIN_INLIERS_REQUIRED - 1,
                                            MIN_INLIERS_REQUIRED, n} }

\* Matrices cv::findHomography returns in the pipeline; entries are exact.
Identity3 == <<1, 0, 0, 0, 1, 0, 0, 0, 1>>

\* Sequence of the elements of seq at the positions satisfying keep.
RECURSIVE SelectIdx(_, _, _)
SelectIdx(seq, keep, i) ==
    IF i > Len(seq) THEN <<>>
    ELSE (IF keep[i] THEN <<seq[i]>> ELSE <<>>) \o SelectIdx(seq, keep, i + 1)

\* Lines 64-69: matches[i] is pushed when mask row i is set, for
\* i < matches.size() and i < inlier_mask.rows.
CollectInliers(matches, mask) ==
    SelectIdx(matches,
              [i \in 1..Len(matches) |-> i <= Len(mask) /\ mask[i]], 1)

\* Lines 74-79: the mask stored in last_result_.
StoredMask(matches, mask, old) ==
    IF mask = Empty THEN old
    ELSE [i \in 1..Len(matches) |-> i <= Len(mask) /\ mask[i]]

\* RANSACResult{}: value-initialization zeroes the scalar members.
ZeroResult == [homography |-> Empty, inlier_mask |-> <<>>, num_inliers |-> 0,
               num_iterations |-> 0]

\* Line 57: the cv::RANSAC outcome is dropped and cv::LMEDS is tried.
NeedsFallback(lib1) ==
    LET inlier_count == IF lib1[2] = Empty THEN 0 ELSE CountTrue(lib1[2])
    IN  lib1[1] = Empty \/ inlier_count < MIN_INLIERS_REQUIRED

\* estimateHomography: lib1 and lib2 are the outcomes <<H, mask>> of the
\* cv::RANSAC and the cv::LMEDS call of cv::findHomography.
EstimateHomography(matches, nkp1, nkp2, inl_in, last, lib1, lib2) ==
    IF Len(matches) < 4
    THEN [ret |-> Empty, inlier_matches |-> inl_in, last_result_ |-> last]
    ELSE IF Cardinality(ValidIndices(matches, nkp1, nkp2)) < 4
    THEN [ret |-> Empty, inlier_matches |-> inl_in, last_result_ |-> ZeroResult]
    ELSE LET lib == IF NeedsFallback(lib1) THEN lib2 ELSE lib1
             homography == lib[1]
             inlier_mask == lib[2]
             inl == CollectInliers(matches, inlier_mask)
         IN  [ret |-> homography,
              inlier_matches |-> inl,
              last_result_ |->
                 [homography |-> homography,
                  inlier_mask |-> StoredMask(matches, inlier_mask, <<>>),
                  num_inliers |-> Len(inl),
                  num_iterations |-> 0]]

\* Outcomes of one cv::findHomography call on n point pairs.
LibOutcomes(n, Hs) == (Hs \cup {Empty}) \X (LibMasks(n) \cup {Empty})

\* The first call's outcomes that matter: an accepted one, or a failure (a
\* rejected non-empty outcome is discarded exactly like a failure).
FirstOutcomes(n, Hs) ==
    {o \in LibOutcomes(n, Hs) : ~ NeedsFallback(o)} \cup {<<Empty, Empty>>}

\* The second call is made only after a rejected first one.
SecondOutcomes(lib1, n, Hs) ==
    IF NeedsFallback(lib1) THEN LibOutcomes(n, Hs) ELSE {<<Empty, Empty>>}

EstLibHomographies == {Identity3, <<1, 0, 1, 0, 1, 0, 0, 0, 1>>}

\* State after HomographyEstimator::HomographyEstimator(): last_result_ is
\* default-initialized, its int members hold indeterminate values.
InitEst ==
    /\ \E g \in IndeterminateInts :
         last_result_ = [homography |-> Empty, inlier_mask |-> <<>>,
                         num_inliers |-> g, num_iterations |-> g]
    /\ inlier_matches = <<>>
    /\ est_matches = <<>>
    /\ est_ret = Empty
    /\ est_calls = 0
    /\ ransac_threshold_ = DEFAULT_RANSAC_THRESHOLD_CENTI
    /\ reprojection_threshold = 0

\* The check of performStitchingDirect (lines 81-84) and of
\* estimateHomography (lines 26-31) on a threshold.
ValidThreshold(t) ==
    IF t <= 0 \/ t > MAX_RANSAC_THRESHOLD_CENTI
    THEN DEFAULT_RANSAC_THRESHOLD_CENTI ELSE t

\* setRANSACThreshold on a fresh estimator, called by a client with any
\* value or by performStitchingDirect (lines 195-196) with its checked
\* argument.
SetRANSACThreshold ==
    /\ driver = "estimator"
    /\ est_calls = 0
    /\ \E t \in {-100, 0, 5, 10, 300, 5000, 5001}, checked \in BOOLEAN :
         /\ ransac_threshold_' = IF checked THEN ValidThreshold(t) ELSE t
    /\ UNCHANGED <<last_result_, inlier_matches, est_matches, est_ret, est_calls,
                   reprojection_threshold>>
    /\ UNCHANGED ransacVars

\* One call of estimateHomography on the long-lived estimator.
EstCall ==
    /\ driver = "estimator"
    /\ est_calls < MaxEstCalls
    /\ \E matches \in MatchLists :
         LET n == Cardinality(ValidIndices(matches, NumKeypoints, NumKeypoints))
         IN  \E lib1 \in FirstOutcomes(n, EstLibHomographies) :
             \E lib2 \in SecondOutcomes(lib1, n, EstLibHomographies) :
               LET r == EstimateHomography(matches, NumKeypoints, NumKeypoints,
                                           inlier_matches, last_result_, lib1, lib2)
               IN  /\ est_matches' = matches
                   /\ est_ret' = r.ret
                   /\ inlier_matches' = r.inlier_matches
                   /\ last_result_' = r.last_result_
                   /\ reprojection_threshold' =
                        IF Len(matches) < 4 THEN reprojection_threshold
                        ELSE ValidThreshold(ransac_threshold_)
    /\ est_calls' = est_calls + 1
    /\ UNCHANGED ransac_threshold_
    /\ UNCHANGED ransacVars

(***************************************************************************)
(* StitchingPipeline::performStitchingDirect                               *)
(* (src/src/pipeline/stitching_pipeline.cpp)                               *)
(***************************************************************************)
VARIABLES
    ppc,                 \* position inside performStitchingDirect
    pcalls,              \* number of calls started
    img1, img2, detector_type, blend_mode, max_panorama_dimension,
    good_matches,        \* match_result.good_matches
    homography,          \* the matrix estimateHomography returned
    ransac_result,       \* h_estimator.getLastResult()
    p_inlier_matches,    \* the local inlier_matches vector
    min_x, min_y, max_x, max_y,   \* bounding box, as fractions <<num, den>>
    panorama_size,       \* <<width, height>>
    panorama, mask1, mask2, warped1, warped2, warped_mask2,
    ret,                 \* the cv::Mat the call returned
    stderr_msg,          \* the error the call wrote to std::cerr
    failed_returns,      \* <<error, returned value>> of the failed calls so far
    viz_counter, match_counter, inlier_counter,  \* function-local statics
    conc                 \* two concurrent calls: position, register, files written

pipeInputs == <<img1, img2, detector_type, blend_mode, max_panorama_dimension>>
pipeEst == <<good_matches, homography, ransac_result, p_inlier_matches>>
pipeGeom == <<min_x, min_y, max_x, max_y, panorama_size>>
pipeCanvas == <<panorama, mask1, mask2, warped1, warped2, warped_mask2>>
pipeOut == <<ret, stderr_msg, failed_returns>>
pipeStatic == <<viz_counter, match_counter, inlier_counter>>
pipeVars == <<ppc, pcalls, pipeInputs, pipeEst, pipeGeom, pipeCanvas, pipeOut,
              pipeStatic>>

MaxPipeCalls == 2

\* config.h, namespace PanoramaConfig
MAX_PANORAMA_DIMENSION == 15000
MIN_IMAGE_DIMENSION == 50
PANORAMA_PADDING == 10
\* MAX_PANORAMA_MEMORY is 2^31 bytes; the model compares halves of byte
\* counts so that every number stays below 2^31.
MAX_PANORAMA_MEMORY_HALF == 1073741824
\* determinant bounds 0.001 and 1000.0, in thousandths
MIN_HOMOGRAPHY_DETERMINANT_MILLI == 1
MAX_HOMOGRAPHY_DETERMINANT_MILLI == 1000000
\* scale bounds 0.1 and 10.0, in tenths
MIN_HOMOGRAPHY_SCALE_TENTHS == 1
MAX_HOMOGRAPHY_SCALE_TENTHS == 100
MAX_IMAGE_PIXELS == 100000000

\* Codes standing for the non-finite doubles.
NaN == -999999
Inf == 999999

EmptyMat == [cols |-> 0, rows |-> 0, type |-> "none"]

Image(c, r, t) == [cols |-> c, rows |-> r, type |-> t]

\* Images handed to the pipeline.
Images ==
    { EmptyMat,
      Image(40, 60, "CV_8UC3"),
      Image(100, 80, "CV_8UC1"),
      Image(100, 80, "CV_8UC3"),
      Image(10000, 6000, "CV_8UC3") }

DetectorTypes == {"orb", "bogus"}
BlendModes == {"simple", "bogus"}
MaxDimensions == {MAX_PANORAMA_DIMENSION, 2 * MAX_PANORAMA_DIMENSION}

\* Matrices cv::findHomography hands to the pipeline.
PipeLibHomographies ==
    { Identity3,
      <<1, 0, 30, 0, 1, 0, 0, 0, 1>>,              \* shift by 30 px
      <<2, 0, -150, 0, 2, 0, 0, 0, 1>>,            \* zoom 2 and shift
      <<1, 0, -20000, 0, 1, 0, 0, 0, 1>>,          \* far shift along x
      <<1, 0, -20000, 0, 1, -20000, 0, 0, 1>>,     \* far shift along x and y
      <<1, 0, 0, 0, NaN, 0, 0, 0, 1>>,
      <<1, 0, 0, 0, 1, Inf, 0, 0, 1>>,
      <<1, 1, 0, 1, 1, 0, 0, 0, 1>>,               \* determinant 0
      <<30, 0, 0, 0, 30, 0, 0, 0, 3>>,             \* determinant 2700
      <<1, 0, 1, 0, 1, 0, 1, 0, 0>>,               \* h22 = 0, determinant -1
      <<20, 0, 0, 0, 1, 0, 0, 0, 1>>,              \* x scale 20
      <<1, 0, 0, 0, 20, 0, 0, 0, 1>>,              \* y scale 20
      <<1, 0, 0, 0, 20, 0, 0, 0, 20>> }            \* x scale 0.05

PipeMatchLists == {ValidMatches(3), ValidMatches(25)}

Abs(x) == IF x < 0 THEN -x ELSE x

\* cv::determinant of a 3x3 matrix.
Det3(H) ==
    H[1] * (H[5]*H[9] - H[6]*H[8])
  - H[2] * (H[4]*H[9] - H[6]*H[7])
  + H[3] * (H[4]*H[8] - H[5]*H[7])

IsNonFinite(v) == v = NaN \/ v = Inf

\* A validation without the inlier-count check.
ValidateNoInlierCheck(H, num_inliers) ==
    IF H = Empty THEN "NoHomography"
    ELSE IF \E k \in 1..9 : IsNonFinite(H[k]) THEN "NonFinite"
    ELSE IF 1000 * Abs(Det3(H)) < MIN_HOMOGRAPHY_DETERMINANT_MILLI
            \/ 1000 * Abs(Det3(H)) > MAX_HOMOGRAPHY_DETERMINANT_MILLI
         THEN "BadDeterminant"
    ELSE IF H[9] = 0 THEN "SingularH22"
    ELSE IF \/ 100 * (Sq(H[1]) + Sq(H[4])) < Sq(MIN_HOMOGRAPHY_SCALE_TENTHS) * Sq(H[9])
            \/ 100 * (Sq(H[1]) + Sq(H[4])) > Sq(MAX_HOMOGRAPHY_SCALE_TENTHS) * Sq(H[9])
            \/ 100 * (Sq(H[2]) + Sq(H[5])) < Sq(MIN_HOMOGRAPHY_SCALE_TENTHS) * Sq(H[9])
            \/ 100 * (Sq(H[2]) + Sq(H[5])) > Sq(MAX_HOMOGRAPHY_SCALE_TENTHS) * Sq(H[9])
         THEN "BadScale"
    ELSE "none"

\* Lines 229-278: the checks in program order; the error of the first
\* failing one, or "none".
ValidateHomography(H, num_inliers) ==
    IF H = Empty THEN "NoHomography"
    ELSE IF \E k \in 1..9 : IsNonFinite(H[k]) THEN "NonFinite"
    ELSE IF 1000 * Abs(Det3(H)) < MIN_HOMOGRAPHY_DETERMINANT_MILLI
            \/ 1000 * Abs(Det3(H)) > MAX_HOMOGRAPHY_DETERMINANT_MILLI
         THEN "BadDeterminant"
    ELSE IF H[9] = 0 THEN "SingularH22"
    ELSE IF \/ 100 * (Sq(H[1]) + Sq(H[4])) < Sq(MIN_HOMOGRAPHY_SCALE_TENTHS) * Sq(H[9])
            \/ 100 * (Sq(H[1]) + Sq(H[4])) > Sq(MAX_HOMOGRAPHY_SCALE_TENTHS) * Sq(H[9])
            \/ 100 * (Sq(H[2]) + Sq(H[5])) < Sq(MIN_HOMOGRAPHY_SCALE_TENTHS) * Sq(H[9])
            \/ 100 * (Sq(H[2]) + Sq(H[5])) > Sq(MAX_HOMOGRAPHY_SCALE_TENTHS) * Sq(H[9])
         THEN "BadScale"
    ELSE IF num_inliers < MIN_INLIERS_REQUIRED THEN "TooFewInliers"
    ELSE "none"

(***************************************************************************)
(* Exact fractions <<num, den>>, den > 0, for the float coordinates.       *)
(***************************************************************************)
Frac(n, d) == IF d < 0 THEN <<-n, -d>> ELSE <<n, d>>
FracLess(p, q) == p[1] * q[2] < q[1] * p[2]
FracMin(p, q) == IF FracLess(q, p) THEN q ELSE p
FracMax(p, q) == IF FracLess(p, q) THEN q ELSE p
FracSub(p, q) == <<p[1] * q[2] - q[1] * p[2], p[2] * q[2]>>
\* static_cast<int> of a non-negative value
Trunc(p) == p[1] \div p[2]
\* std::ceil of a non-negative value
Ceil(p) == (p[1] + p[2] - 1) \div p[2]

\* homography.inv() up to the factor 1/det, which no projection sees.
Adjugate(H) ==
    << H[5]*H[9] - H[6]*H[8], H[3]*H[8] - H[2]*H[9], H[2]*H[6] - H[3]*H[5],
       H[6]*H[7] - H[4]*H[9], H[1]*H[9] - H[3]*H[7], H[3]*H[4] - H[1]*H[6],
       H[4]*H[8] - H[5]*H[7], H[2]*H[7] - H[1]*H[8], H[1]*H[5] - H[2]*H[4] >>

\* cv::perspectiveTransform of one point; a zero w maps to (0, 0).
PerspectivePoint(M, x, y) ==
    LET X == M[1]*x + M[2]*y + M[3]
        Y == M[4]*x + M[5]*y + M[6]
        W == M[7]*x + M[8]*y + M[9]
    IN  IF W = 0 THEN << <<0, 1>>, <<0, 1>> >>
        ELSE << Frac(X, W), Frac(Y, W) >>

\* The four corners of an image, transformed by M.
TransformedCorners(img, M) ==
    { PerspectivePoint(M, c[1], c[2]) :
        c \in { <<0, 0>>, <<img.cols, 0>>, <<img.cols, img.rows>>, <<0, img.rows>> } }

RECURSIVE FoldMin(_, _, _)
FoldMin(start, pts, k) ==
    IF pts = {} THEN start
    ELSE LET pt == CHOOSE q \in pts : TRUE
         IN  FoldMin(FracMin(start, pt[k]), pts \ {pt}, k)

RECURSIVE FoldMax(_, _, _)
FoldMax(start, pts, k) ==
    IF pts = {} THEN start
    ELSE LET pt == CHOOSE q \in pts : TRUE
         IN  FoldMax(FracMax(start, pt[k]), pts \ {pt}, k)

\* Lines 323-331 (and 142-152 of homography_estimator.cpp): the union of
\* image 1's rectangle with the transformed corners of image 2.
BoundingBox(imgA, corners) ==
    [min_x |-> FoldMin(<<0, 1>>, corners, 1),
     max_x |-> FoldMax(<<imgA.cols, 1>>, corners, 1),
     min_y |-> FoldMin(<<0, 1>>, corners, 2),
     max_y |-> FoldMax(<<imgA.rows, 1>>, corners, 2)]

\* Lines 338-341.
PanoramaSize(bb) ==
    << Trunc(FracSub(bb.max_x, bb.min_x)) + PANORAMA_PADDING * 2,
       Trunc(FracSub(bb.max_y, bb.min_y)) + PANORAMA_PADDING * 2 >>

\* A canvas check without the dimension limit.
CheckCanvasNoDimension(size, maxdim) ==
    IF size[1] <= 0 \/ size[2] <= 0 THEN "NegativeSize"
    ELSE IF size[1] * size[2] > MAX_PANORAMA_MEMORY_HALF \div 3 THEN "MemoryExceeded"
    ELSE "none"

\* Lines 343-369: the error of the first failing size check, or "none".
\* width*height*3*2 > 2^31 exactly when width*height > 2^30 \div 3.
CheckCanvas(size, maxdim) ==
    IF size[1] <= 0 \/ size[2] <= 0 THEN "NegativeSize"
    ELSE IF size[1] > maxdim \/ size[2] > maxdim THEN "CanvasTooLarge"
    ELSE IF size[1] * size[2] > MAX_PANORAMA_MEMORY_HALF \div 3 THEN "MemoryExceeded"
    ELSE "none"

\* A cv::Mat that has not been assigned in the current call.
None == [cols |-> -1]

\* `ret` is what the caller last received, `stderr_msg` the error the last
\* call wrote to std::cerr; both outlive the call.  Locals do not.
LocalsIdle ==
    /\ img1 = EmptyMat /\ img2 = EmptyMat
    /\ detector_type = "orb" /\ blend_mode = "simple"
    /\ max_panorama_dimension = MAX_PANORAMA_DIMENSION
    /\ good_matches = <<>>
    /\ homography = Empty
    /\ ransac_result = ZeroResult
    /\ p_inlier_matches = <<>>
    /\ min_x = <<0, 1>> /\ min_y = <<0, 1>> /\ max_x = <<0, 1>> /\ max_y = <<0, 1>>
    /\ panorama_size = <<0, 0>>
    /\ panorama = None /\ mask1 = None /\ mask2 = None
    /\ warped1 = None /\ warped2 = None /\ warped_mask2 = None

InitPipe ==
    /\ ppc = "idle"
    /\ pcalls = 0
    /\ LocalsIdle
    /\ ret = None
    /\ stderr_msg = "none"
    /\ failed_returns = {}
    /\ viz_counter = 0 /\ match_counter = 0 /\ inlier_counter = 0
    /\ conc = [t \in {1, 2} |-> [pc |-> 1, reg |-> 0, files |-> <<>>]]

\* The parameters and locals of a call end with the call.
LocalsGone ==
    /\ img1' = EmptyMat /\ img2' = EmptyMat
    /\ detector_type' = "orb" /\ blend_mode' = "simple"
    /\ max_panorama_dimension' = MAX_PANORAMA_DIMENSION
    /\ good_matches' = <<>>
    /\ homography' = Empty
    /\ ransac_result' = ZeroResult
    /\ p_inlier_matches' = <<>>
    /\ min_x' = <<0, 1>> /\ min_y' = <<0, 1>> /\ max_x' = <<0, 1>> /\ max_y' = <<0, 1>>
    /\ panorama_size' = <<0, 0>>
    /\ panorama' = None /\ mask1' = None /\ mask2' = None
    /\ warped1' = None /\ warped2' = None /\ warped_mask2' = None

\* A failure return that writes no message.
FailWithoutMessage(reason) ==
    /\ ppc' = "returned"
    /\ ret' = EmptyMat
    /\ stderr_msg' = "none"
    /\ failed_returns' = failed_returns \cup {<<reason, EmptyMat>>}
    /\ LocalsGone

\* `std::cerr << ...; return cv::Mat();`
Fail(reason) ==
    /\ ppc' = "returned"
    /\ ret' = EmptyMat
    /\ stderr_msg' = reason
    /\ failed_returns' = failed_returns \cup {<<reason, EmptyMat>>}
    /\ LocalsGone

\* Lines 65-99: the error of the first failing input check, or "none".
CheckInputs(a, b) ==
    IF a = EmptyMat \/ b = EmptyMat THEN "EmptyInput"
    ELSE IF a.type # "CV_8UC3" \/ b.type # "CV_8UC3" THEN "WrongType"
    ELSE IF \/ a.cols < MIN_IMAGE_DIMENSION \/ a.rows < MIN_IMAGE_DIMENSION
            \/ b.cols < MIN_IMAGE_DIMENSION \/ b.rows < MIN_IMAGE_DIMENSION
         THEN "TooSmall"
    ELSE IF a.rows * a.cols + b.rows * b.cols > MAX_IMAGE_PIXELS THEN "TooManyPixels"
    ELSE "none"

\* Lines 53-102: a call starts and its inputs are checked.
PipeCall ==
    /\ driver = "pipeline"
    /\ ppc \in {"idle", "returned"}
    /\ pcalls < MaxPipeCalls
    /\ pcalls' = pcalls + 1
    /\ \E a \in Images, b \in Images, d \in DetectorTypes, m \in BlendModes,
          maxdim \in MaxDimensions :
        IF CheckInputs(a, b) # "none"
        THEN Fail(CheckInputs(a, b))
        ELSE /\ img1' = a /\ img2' = b /\ detector_type' = d /\ blend_mode' = m
             /\ max_panorama_dimension' = maxdim
             /\ ppc' = "detect"
             /\ ret' = None
             /\ stderr_msg' = "none"
             /\ UNCHANGED <<pipeEst, pipeGeom, pipeCanvas, failed_returns>>
    /\ UNCHANGED pipeStatic

\* Lines 104-192: the detectors are created (an unknown type throws and the
\* call returns), features are detected and matched by the collaborators,
\* and the keypoint and match pictures are written under the next indices.
PipeDetect ==
    /\ driver = "pipeline"
    /\ ppc = "detect"
    /\ IF detector_type \notin {"orb", "akaze", "sift"}
       THEN /\ Fail("DetectorError")
            /\ UNCHANGED pipeStatic
       ELSE /\ \E ms \in PipeMatchLists : good_matches' = ms
            /\ viz_counter' = viz_counter + 1
            /\ match_counter' = match_counter + 1
            /\ ppc' = "estimate"
            /\ UNCHANGED <<pipeInputs, homography, ransac_result, p_inlier_matches,
                           pipeGeom, pipeCanvas, pipeOut, inlier_counter>>
    /\ UNCHANGED pcalls

\* Lines 194-227: a fresh HomographyEstimator estimates the homography; the
\* inlier picture is written when there are inlier matches.
PipeEstimate ==
    /\ driver = "pipeline"
    /\ ppc = "estimate"
    /\ LET n == Cardinality(ValidIndices(good_matches, NumKeypoints, NumKeypoints))
       IN  \E lib1 \in FirstOutcomes(n, PipeLibHomographies) :
           \E lib2 \in SecondOutcomes(lib1, n, PipeLibHomographies) :
           \E g \in IF Len(good_matches) < 4 THEN IndeterminateInts ELSE {0} :
             LET fresh == [homography |-> Empty, inlier_mask |-> <<>>,
                           num_inliers |-> g, num_iterations |-> g]
                 r == EstimateHomography(good_matches, NumKeypoints, NumKeypoints,
                                         <<>>, fresh, lib1, lib2)
             IN  /\ homography' = r.ret
                 /\ ransac_result' = r.last_result_
                 /\ p_inlier_matches' = r.inlier_matches
                 /\ inlier_counter' = IF r.inlier_matches # <<>>
                                      THEN inlier_counter + 1 ELSE inlier_counter
    /\ ppc' = "validate"
    /\ UNCHANGED <<pcalls, pipeInputs, good_matches, pipeGeom, pipeCanvas, pipeOut,
                   viz_counter, match_counter>>

\* Lines 229-278: the homography checks.
PipeValidate ==
    /\ driver = "pipeline"
    /\ ppc = "validate"
    /\ LET verdict == ValidateHomography(homography, ransac_result.num_inliers)
       IN  IF verdict # "none"
           THEN Fail(verdict)
           ELSE /\ ppc' = "bounds"
                /\ UNCHANGED <<pipeInputs, pipeEst, pipeGeom, pipeCanvas, pipeOut>>
    /\ UNCHANGED <<pcalls, pipeStatic>>

\* Lines 303-341: image 2's corners go through the inverse homography, the
\* bounding box and the canvas size follow.  cv::Mat::inv() does not throw
\* on the matrices that pass the checks above.
PipeBounds ==
    /\ driver = "pipeline"
    /\ ppc = "bounds"
    /\ LET H_inv == Adjugate(homography)
           bb == BoundingBox(img1, TransformedCorners(img2, H_inv))
       IN  /\ min_x' = bb.min_x /\ max_x' = bb.max_x
           /\ min_y' = bb.min_y /\ max_y' = bb.max_y
           /\ panorama_size' = PanoramaSize(bb)
    /\ ppc' = "check_canvas"
    /\ UNCHANGED <<pcalls, pipeInputs, pipeEst, pipeCanvas, pipeOut, pipeStatic>>

\* Lines 343-369: the size and memory checks.
PipeCheckCanvas ==
    /\ driver = "pipeline"
    /\ ppc = "check_canvas"
    /\ LET verdict == CheckCanvas(panorama_size, max_panorama_dimension)
       IN  IF verdict # "none"
           THEN Fail(verdict)
           ELSE /\ ppc' = "allocate"
                /\ UNCHANGED <<pipeInputs, pipeEst, pipeGeom, pipeCanvas, pipeOut>>
    /\ UNCHANGED <<pcalls, pipeStatic>>

\* cv::Mat::zeros(size, type)
Zeros(size, t) == [cols |-> size[1], rows |-> size[2], type |-> t, content |-> "zeros"]

\* Lines 371-373: the canvas and the two masks are allocated.
PipeAllocate ==
    /\ driver = "pipeline"
    /\ ppc = "allocate"
    /\ panorama' = Zeros(panorama_size, img1.type)
    /\ mask1' = Zeros(panorama_size, "CV_8UC1")
    /\ mask2' = Zeros(panorama_size, "CV_8UC1")
    /\ ppc' = "warp"
    /\ UNCHANGED <<pcalls, pipeInputs, pipeEst, pipeGeom, warped1, warped2,
                   warped_mask2, pipeOut, pipeStatic>>

\* cv::warpPerspective(src, dst, M, size): dst has the given size and shows
\* src moved by M.  The model keeps the name and size of the source, the
\* matrix's homography part and its translation part <<tx, ty>>.
Warped(src, name, H, shift, size) ==
    [cols |-> size[1], rows |-> size[2], type |-> src.type,
     content |-> [src |-> name, src_cols |-> src.cols, src_rows |-> src.rows,
                  H |-> H, shift |-> shift]]

\* The source pixel cv::warpPerspective shows at <<x, y>> of a warped image:
\* with a whole-pixel translation <<tx, ty>> it is the source's pixel
\* <<x - tx, y - ty>>, or the constant border outside the source.
WarpedPixel(w, x, y) ==
    LET tx == w.content.shift[1]
        ty == w.content.shift[2]
    IN  IF w.content.H = Identity3 /\ tx[2] = 1 /\ ty[2] = 1
        THEN IF /\ 0 <= x - tx[1] /\ x - tx[1] < w.content.src_cols
                /\ 0 <= y - ty[1] /\ y - ty[1] < w.content.src_rows
             THEN <<w.content.src, x - tx[1], y - ty[1]>>
             ELSE <<"border", 0, 0>>
        ELSE <<"resampled", x, y>>

\* The translation part of the matrix `translation` of lines 333-336.
Translation(mx, my) == << <<-mx[1], mx[2]>>, <<-my[1], my[2]>> >>

\* Lines 375-384: both images and their all-255 masks are warped.
PipeWarp ==
    /\ driver = "pipeline"
    /\ ppc = "warp"
    /\ LET t == Translation(min_x, min_y)
           H_inv == Adjugate(homography)
       IN  /\ warped1' = Warped(img1, "img1", Identity3, t, panorama_size)
           /\ mask1' = Warped(Image(img1.cols, img1.rows, "CV_8UC1"), "ones1",
                              Identity3, t, panorama_size)
           /\ warped2' = Warped(img2, "img2", H_inv, t, panorama_size)
           /\ warped_mask2' = Warped(Image(img2.cols, img2.rows, "CV_8UC1"), "ones2",
                                     H_inv, t, panorama_size)
    /\ ppc' = "blend"
    /\ UNCHANGED <<pcalls, pipeInputs, pipeEst, pipeGeom, panorama, mask2, pipeOut,
                   pipeStatic>>

\* BlenderFactory::createBlender, with the fallback of lines 389-395.
BlendModeUsed(mode) ==
    IF mode \in {"simple", "feather", "multiband"} THEN mode ELSE "feather"

\* Lines 386-405: the blender is created and its result is returned.
PipeBlend ==
    /\ driver = "pipeline"
    /\ ppc = "blend"
    /\ ret' = [cols |-> warped1.cols, rows |-> warped1.rows, type |-> warped1.type,
               content |-> <<"blend", BlendModeUsed(blend_mode)>>]
    /\ ppc' = "returned"
    /\ LocalsGone
    /\ UNCHANGED <<pcalls, stderr_msg, failed_returns, pipeStatic>>

(***************************************************************************)
(* ExperimentRunner::runSingleExperiment (experiment_runner.cpp).           *)
(***************************************************************************)
VARIABLES
    epc,                 \* position inside runSingleExperiment
    ecalls,              \* number of calls started
    e_img1, e_img2,      \* the images cv::imread returned
    e_blend_mode,        \* config.blend_mode
    e_good_matches,      \* match_result.good_matches
    e_homography,        \* the matrix estimateHomography returned
    e_ransac_result,     \* h_estimator.getLastResult()
    e_panorama,          \* the local canvas
    e_warped2,           \* img2 warped by the homography
    e_result             \* the ExperimentResult the latest call returned

expLocals == <<e_img1, e_img2, e_blend_mode, e_good_matches, e_homography,
               e_ransac_result, e_panorama, e_warped2>>
expVars == <<epc, ecalls, expLocals, e_result>>

MaxExpCalls == 2

ExpImages == {EmptyMat, Image(100, 80, "CV_8UC3")}

\* Matrices cv::findHomography hands to the experiment.
ExpLibHomographies ==
    { Identity3,
      <<1, 0, 30, 0, 1, 0, 0, 0, 1>>,
      <<30, 0, 0, 0, 30, 0, 0, 0, 3>>,
      <<20, 0, 0, 0, 1, 0, 0, 0, 1>> }

InitExp ==
    /\ epc = "idle"
    /\ ecalls = 0
    /\ e_img1 = EmptyMat /\ e_img2 = EmptyMat
    /\ e_blend_mode = "simple"
    /\ e_good_matches = <<>>
    /\ e_homography = Empty
    /\ e_ransac_result = ZeroResult
    /\ e_panorama = None /\ e_warped2 = None
    /\ e_result = [returned |-> FALSE]

ExpLocalsGone ==
    /\ e_img1' = EmptyMat /\ e_img2' = EmptyMat
    /\ e_blend_mode' = "simple"
    /\ e_good_matches' = <<>>
    /\ e_homography' = Empty
    /\ e_ransac_result' = ZeroResult
    /\ e_panorama' = None /\ e_warped2' = None

ExpReturn(res) ==
    /\ epc' = "returned"
    /\ e_result' = res
    /\ ExpLocalsGone

\* `ExperimentResult{}`: every field zero, the panorama empty.
EmptyExperimentResult == [returned |-> TRUE, num_inliers |-> 0, panorama |-> EmptyMat]

\* Lines 126-203: the images are read, features are detected and matched.
\* `ExperimentResult result;` leaves the numeric fields unset.
ExpRun ==
    /\ driver = "experiment"
    /\ epc \in {"idle", "returned"}
    /\ ecalls < MaxExpCalls
    /\ ecalls' = ecalls + 1
    /\ \E a \in ExpImages, b \in ExpImages, d \in DetectorTypes, m \in BlendModes :
        IF a = EmptyMat \/ b = EmptyMat
        THEN \E g \in IndeterminateInts :
                ExpReturn([returned |-> TRUE, num_inliers |-> g, panorama |-> EmptyMat])
        ELSE IF d \notin {"orb", "akaze", "sift"}
        THEN ExpReturn(EmptyExperimentResult)
        ELSE /\ e_img1' = a /\ e_img2' = b /\ e_blend_mode' = m
             /\ \E ms \in PipeMatchLists : e_good_matches' = ms
             /\ epc' = "estimate"
             /\ UNCHANGED <<e_homography, e_ransac_result, e_panorama, e_warped2,
                            e_result>>

\* Lines 204-225: a fresh HomographyEstimator estimates the homography.
ExpEstimate ==
    /\ driver = "experiment"
    /\ epc = "estimate"
    /\ LET n == Cardinality(ValidIndices(e_good_matches, NumKeypoints, NumKeypoints))
       IN  \E lib1 \in FirstOutcomes(n, ExpLibHomographies) :
           \E lib2 \in SecondOutcomes(lib1, n, ExpLibHomographies) :
           \E g \in IF Len(e_good_matches) < 4 THEN IndeterminateInts ELSE {0} :
             LET fresh == [homography |-> Empty, inlier_mask |-> <<>>,
                           num_inliers |-> g, num_iterations |-> g]
                 r == EstimateHomography(e_good_matches, NumKeypoints, NumKeypoints,
                                         <<>>, fresh, lib1, lib2)
             IN  /\ e_homography' = r.ret
                 /\ e_ransac_result' = r.last_result_
    /\ epc' = "warp"
    /\ UNCHANGED <<ecalls, e_img1, e_img2, e_blend_mode, e_good_matches, e_panorama,
                   e_warped2, e_result>>

\* HomographyEstimator::calculateOutputBounds: the size of the returned Rect.
calculateOutputBounds(imgA, imgB, H) ==
    LET bb == BoundingBox(imgA, TransformedCorners(imgB, H))
        width == Ceil(FracSub(bb.max_x, bb.min_x)) + PANORAMA_PADDING * 2
        height == Ceil(FracSub(bb.max_y, bb.min_y)) + PANORAMA_PADDING * 2
    IN  << Min(width, MAX_PANORAMA_DIMENSION), Min(height, MAX_PANORAMA_DIMENSION) >>

\* Lines 227-234: with a non-empty homography the canvas is allocated, img1
\* is copied into it and img2 is warped; with an empty one the call returns.
ExpWarp ==
    /\ driver = "experiment"
    /\ epc = "warp"
    /\ IF e_homography = Empty
       THEN ExpReturn([returned |-> TRUE, num_inliers |-> e_ransac_result.num_inliers,
                       panorama |-> EmptyMat])
       ELSE LET size == calculateOutputBounds(e_img1, e_img2, e_homography)
            IN  /\ e_panorama' = [cols |-> size[1], rows |-> size[2],
                                  type |-> e_img1.type, content |-> "img1"]
                /\ e_warped2' = Warped(e_img2, "img2", e_homography,
                                       << <<0, 1>>, <<0, 1>> >>, size)
                /\ epc' = "blend"
                /\ UNCHANGED <<e_img1, e_img2, e_blend_mode, e_good_matches,
                               e_homography, e_ransac_result, e_result>>
    /\ UNCHANGED ecalls

\* Lines 236-266: the blender is created (an unknown mode returns the empty
\* result) and the blended panorama is returned.
ExpBlend ==
    /\ driver = "experiment"
    /\ epc = "blend"
    /\ IF e_blend_mode \notin {"simple", "feather", "multiband"}
       THEN ExpReturn(EmptyExperimentResult)
       ELSE ExpReturn([returned |-> TRUE,
                       num_inliers |-> e_ransac_result.num_inliers,
                       panorama |-> [cols |-> e_panorama.cols, rows |-> e_panorama.rows,
                                     type |-> e_panorama.type,
                                     content |-> <<"blend", e_blend_mode>>]])
    /\ UNCHANGED ecalls

(***************************************************************************)
(* Blender (blender.cpp).  An image is its size, its type and its pixels   *)
(* in row-major order; a pixel is one value standing for all channels.     *)
(***************************************************************************)
VARIABLES
    bpc,                 \* "idle" before the call, "returned" after it
    b_img1, b_img2, b_mask1, b_mask2,   \* the arguments
    b_result,            \* the returned image
    feather_radius,      \* featherBlend's parameter
    num_bands,           \* multibandBlend's parameter, as the call changes it
    mb                   \* multibandBlend's pyramids

blendVars == <<bpc, b_img1, b_img2, b_mask1, b_mask2, b_result,
               feather_radius, num_bands, mb>>

MaxPixels == 2

PixelValues == {0, 255}
MaskValues == {0, 1, 255}
PixelTypes == {"CV_8UC3", "CV_8UC1"}

Pixels(n, values) == [1..n -> values]

\* The images of n pixels in one row.
BlendImages(n, t) ==
    { [cols |-> n, rows |-> 1, type |-> t, px |-> px] : px \in Pixels(n, PixelValues) }

BlendMasks(n) ==
    { [cols |-> n, rows |-> 1, type |-> "CV_8UC1", px |-> px] :
        px \in Pixels(n, MaskValues) }

\* An overlay that selects by the first mask.
simpleOverlayByMask1(i1, i2, m1, m2) ==
    IF <<i1.cols, i1.rows>> # <<i2.cols, i2.rows>> \/ i1.type # i2.type
    THEN EmptyMat
    ELSE [i1 EXCEPT !.px = [k \in 1..Len(i1.px) |->
                              IF m1.px[k] # 0 THEN i2.px[k] ELSE i1.px[k]]]

\* Blender::simpleOverlay: `result = img1.clone(); img2.copyTo(result, mask2);`
simpleOverlay(i1, i2, m1, m2) ==
    IF <<i1.cols, i1.rows>> # <<i2.cols, i2.rows>> \/ i1.type # i2.type
    THEN EmptyMat
    ELSE [i1 EXCEPT !.px = [k \in 1..Len(i1.px) |->
                              IF m2.px[k] # 0 THEN i2.px[k] ELSE i1.px[k]]]

BlendIdle ==
    /\ bpc = "idle"
    /\ b_img1 = EmptyMat /\ b_img2 = EmptyMat
    /\ b_mask1 = EmptyMat /\ b_mask2 = EmptyMat
    /\ b_result = None
    /\ feather_radius = 30 /\ num_bands = 5      \* the default arguments
    /\ mb = Empty

\* The arguments of one call: each mask has the size of its image.
InitBlend ==
    /\ bpc = "idle"
    /\ \E n1 \in 1..MaxPixels, n2 \in 1..MaxPixels, t \in PixelTypes :
        /\ b_img1 \in BlendImages(n1, "CV_8UC3")
        /\ b_img2 \in BlendImages(n2, t)
        /\ b_mask1 \in BlendMasks(n1)
        /\ b_mask2 \in BlendMasks(n2)
    /\ b_result = None
    /\ feather_radius = 30 /\ num_bands = 5      \* the default arguments
    /\ mb = Empty

SimpleOverlayCall ==
    /\ driver = "blend"
    /\ bpc = "idle"
    /\ b_result' = simpleOverlay(b_img1, b_img2, b_mask1, b_mask2)
    /\ bpc' = "returned"
    /\ UNCHANGED <<b_img1, b_img2, b_mask1, b_mask2, feather_radius, num_bands, mb>>

(***************************************************************************)
(* Blender::featherBlend on images of one row.                             *)
(***************************************************************************)
MaxFeatherPixels == 3

\* The weight of pixel i as a numerator over a denominator that is the same
\* for both images.  With a radius, cv::distanceTransform(DIST_L2, 3) counts
\* 0.955 for each horizontal step to the nearest zero pixel of the mask (a
\* mask with no zero pixel has a distance beyond every radius), and
\* `cv::min(dist, radius) / radius` clamps it: thousandths over
\* 1000 * radius.  Without a radius, `mask / 255`.
FeatherWeight(m, i, radius) ==
    LET zs == { j \in 1..Len(m.px) : m.px[j] = 0 }
        k  == CHOOSE d \in 0..Len(m.px) :
                /\ \E j \in zs : Abs(i - j) = d
                /\ \A j \in zs : Abs(i - j) >= d
    IN  IF radius <= 0 THEN m.px[i]
        ELSE IF zs = {} THEN 1000 * radius
        ELSE Min(955 * k, 1000 * radius)

\* A feather blend that takes the first image wherever it has weight.
featherBlendFirstWins(i1, i2, m1, m2, radius) ==
    IF <<i1.cols, i1.rows>> # <<i2.cols, i2.rows>> \/ i1.type # i2.type
    THEN {EmptyMat}
    ELSE { [i1 EXCEPT !.px = [k \in 1..Len(i1.px) |->
              IF FeatherWeight(m1, k, radius) # 0 THEN i1.px[k]
              ELSE IF FeatherWeight(m2, k, radius) # 0 THEN i2.px[k] ELSE 0]] }

\* A feather blend that leaves the first image's pixel where neither image
\* has weight.
featherBlendKeepsOutside(i1, i2, m1, m2, radius) ==
    IF <<i1.cols, i1.rows>> # <<i2.cols, i2.rows>> \/ i1.type # i2.type
    THEN {EmptyMat}
    ELSE { [i1 EXCEPT !.px = [k \in 1..Len(i1.px) |->
              IF FeatherWeight(m1, k, radius) # 0 THEN i1.px[k]
              ELSE IF FeatherWeight(m2, k, radius) # 0 THEN i2.px[k]
              ELSE i1.px[k]]] }

\* Blender::featherBlend: the images it can return.  `weight_sum +=
\* (weight_sum == 0)` makes the denominator nonzero where both weights are
\* zero; each pixel is `(weighted1 + weighted2) / weight_sum`, rounded to
\* the nearest value by convertTo(CV_8UC3); a float quotient that lies
\* halfway in exact arithmetic can land on either side.
featherBlend(i1, i2, m1, m2, radius) ==
    LET n      == Len(i1.px)
        w1(k)  == FeatherWeight(m1, k, radius)
        w2(k)  == FeatherWeight(m2, k, radius)
        sum(k) == IF w1(k) + w2(k) = 0 THEN 255 ELSE w1(k) + w2(k)
        num(k) == i1.px[k] * w1(k) + i2.px[k] * w2(k)
        ties   == { k \in 1..n : 2 * (num(k) % sum(k)) = sum(k) }
        down   == [k \in 1..n |->
                     IF 2 * (num(k) % sum(k)) > sum(k)
                     THEN (num(k) \div sum(k)) + 1 ELSE num(k) \div sum(k)]
    IN  IF <<i1.cols, i1.rows>> # <<i2.cols, i2.rows>> \/ i1.type # i2.type
        THEN {EmptyMat}
        ELSE { [i1 EXCEPT !.px = [k \in 1..n |->
                                    IF k \in up THEN down[k] + 1 ELSE down[k]]] :
                 up \in SUBSET ties }

\* The arguments of one featherBlend call: a three-channel first image,
\* each mask of the size of its image and holding 0 and 255.
InitFeather ==
    /\ bpc = "idle"
    /\ \E n1 \in 1..MaxFeatherPixels, t \in PixelTypes :
         \E n2 \in {n1, 1} :
           /\ b_img1 \in BlendImages(n1, "CV_8UC3")
           /\ b_img2 \in BlendImages(n2, t)
           /\ b_mask1 \in { m \in BlendMasks(n1) : \A k \in 1..n1 : m.px[k] # 1 }
           /\ b_mask2 \in { m \in BlendMasks(n2) : \A k \in 1..n2 : m.px[k] # 1 }
    /\ b_result = None
    /\ feather_radius \in {0, 1, 30}
    /\ num_bands = 5
    /\ mb = Empty

FeatherBlendCall ==
    /\ driver = "feather"
    /\ bpc = "idle"
    /\ b_result' \in featherBlend(b_img1, b_img2, b_mask1, b_mask2, feather_radius)
    /\ bpc' = "returned"
    /\ UNCHANGED <<b_img1, b_img2, b_mask1, b_mask2, feather_radius, num_bands, mb>>

(***************************************************************************)
(* Blender::multibandBlend on images of one colour: an image is its size,  *)
(* its type and the value `fill` of all its pixels.  cv::pyrDown halves    *)
(* the size (rounding up) and cv::pyrUp restores it, and both keep the     *)
(* value of a one-colour image.                                            *)
(***************************************************************************)
MaxBands == 6

\* A multi-band blend that does not compare the pixel types.
multibandBlendAnyType(i1, i2, m1, m2, bands) ==
    { [result |-> [i1 EXCEPT !.fill = f], num_bands |-> bands, pyramids |-> Empty] :
        f \in {i1.fill, i2.fill} }

\* A multi-band blend that weighs each image by its mask without dividing
\* by the sum of the masks.
multibandBlendNotNormalized(i1, i2, m1, m2, bands) ==
    IF <<i1.cols, i1.rows>> # <<i2.cols, i2.rows>> \/ i1.type # i2.type
    THEN { [result |-> EmptyMat, num_bands |-> bands, pyramids |-> Empty] }
    ELSE { [result |-> [i1 EXCEPT !.fill = (i1.fill * m1.fill + i2.fill * m2.fill) \div 255],
            num_bands |-> bands, pyramids |-> Empty] }

\* Blender::multibandBlend: the outcomes of a call, each the returned image,
\* the value the call leaves in its parameter num_bands and the pyramids it
\* built.
multibandBlend(i1, i2, m1, m2, bands) ==
    LET pixel_count == i1.rows * i1.cols
        \* `estimated_memory > 1073741824` on size_t: a negative num_bands
        \* converts to 2^64 - |num_bands| and the product wraps to
        \* 2^64 - pixel_count * 24 * |num_bands|.
        exceeds == IF bands < 0 THEN pixel_count > 0
                   ELSE pixel_count * bands > 1073741824 \div 24
        used  == IF exceeds THEN (IF bands - 2 > 3 THEN bands - 2 ELSE 3) ELSE bands
        \* createGaussianPyramid and createLaplacianPyramid push one level
        \* outside their loops.
        built == IF used < 1 THEN 1 ELSE used
        level(img, k, v) == [cols |-> (img.cols + 2^k - 1) \div 2^k,
                             rows |-> (img.rows + 2^k - 1) \div 2^k,
                             fill |-> v]
        laplacian(img) == [k \in 1..built |->
                             level(img, k - 1, IF k = built THEN img.fill ELSE 0)]
        gaussian(m)    == [k \in 1..built |-> level(m, k - 1, m.fill)]
        pyramid1 == laplacian(i1)
        pyramid2 == laplacian(i2)
        \* `mask_sum += (mask_sum == 0)`; the masks' common divisor 255 cancels.
        mask_sum == IF m1.fill + m2.fill = 0 THEN 255 ELSE m1.fill + m2.fill
        \* the blend loop `for (int i = 0; i < num_bands; i++)`: the value of
        \* level i as a numerator over mask_sum
        blended_pyramid ==
            [k \in 1..used |->
               level(i1, k - 1, pyramid1[k].fill * m1.fill + pyramid2[k].fill * m2.fill)]
        pyramids == [requested |-> bands, pyramid1 |-> pyramid1, pyramid2 |-> pyramid2,
                     mask_pyramid1 |-> gaussian(m1), mask_pyramid2 |-> gaussian(m2),
                     blended_pyramid |-> blended_pyramid]
        \* reconstructFromPyramid: pyrUp and add from `pyramid.back()` down
        \* to level 0, then convertTo(CV_8UC3) rounds to the nearest value
        \* (a float quotient halfway between two values lands on either).
        num == blended_pyramid[used].fill
        q   == num \div mask_sum
        fills == IF 2 * (num % mask_sum) < mask_sum THEN {q}
                 ELSE IF 2 * (num % mask_sum) > mask_sum THEN {q + 1}
                 ELSE {q, q + 1}
    IN  IF <<i1.cols, i1.rows>> # <<i2.cols, i2.rows>> \/ i1.type # i2.type
        THEN { [result |-> EmptyMat, num_bands |-> bands, pyramids |-> Empty] }
        ELSE IF used < 1
        \* `pyramid.back()` of an empty vector is undefined: the call returns
        \* an empty image or whatever image the stray element holds.
        THEN { [result |-> r, num_bands |-> used, pyramids |-> pyramids] :
                 r \in {EmptyMat, i1, i2} }
        ELSE { [result |-> [i1 EXCEPT !.fill = f], num_bands |-> used,
                pyramids |-> pyramids] : f \in fills }

\* The arguments of one multibandBlend call: a three-channel first image,
\* each mask of the size of its image.
InitMultiband ==
    /\ bpc = "idle"
    /\ \E s1 \in {<<1, 1>>, <<5, 3>>, <<10000, 6000>>}, t \in PixelTypes :
         \E s2 \in {s1, <<5, 2>>} :
           /\ b_img1 \in { [cols |-> s1[1], rows |-> s1[2], type |-> "CV_8UC3", fill |-> f] :
                              f \in PixelValues }
           /\ b_img2 \in { [cols |-> s2[1], rows |-> s2[2], type |-> t, fill |-> f] :
                              f \in PixelValues }
           /\ b_mask1 \in { [cols |-> s1[1], rows |-> s1[2], type |-> "CV_8UC1", fill |-> f] :
                              f \in MaskValues }
           /\ b_mask2 \in { [cols |-> s2[1], rows |-> s2[2], type |-> "CV_8UC1", fill |-> f] :
                              f \in MaskValues }
    /\ b_result = None
    /\ feather_radius = 30
    /\ num_bands \in -1..MaxBands
    /\ mb = Empty

MultibandBlendCall ==
    /\ driver = "multiband"
    /\ bpc = "idle"
    /\ \E out \in multibandBlend(b_img1, b_img2, b_mask1, b_mask2, num_bands) :
         /\ b_result' = out.result
         /\ num_bands' = out.num_bands
         /\ mb' = out.pyramids
    /\ bpc' = "returned"
    /\ UNCHANGED <<b_img1, b_img2, b_mask1, b_mask2, feather_radius>>

(***************************************************************************)
(* Two performStitchingDirect calls running concurrently on separate image *)
(* pairs, from the first visualization block on.  The calls share only the *)
(* three function-local statics.  `counter++` is a load and a store; the   *)
(* file name reads the counter again.  Positions 1-3 are load, store and   *)
(* name of viz_counter (lines 138-140), 4-6 of match_counter (178-180),    *)
(* 7-9 of inlier_counter (213-215, skipped without inlier matches), 10 is  *)
(* past them.                                                              *)
(***************************************************************************)
ConcurrentStep ==
    /\ driver = "concurrent"
    /\ \E t \in {1, 2}, has_inliers \in BOOLEAN :
         LET p    == conc[t].pc
             c    == ((p - 1) \div 3) + 1
             kind == (p - 1) % 3
             cur  == <<viz_counter, match_counter, inlier_counter>>[c]
             new  == IF kind = 1 THEN conc[t].reg + 1 ELSE cur
         IN  /\ p <= 9
             /\ conc' = [conc EXCEPT
                   ![t].pc = IF p = 7 /\ ~has_inliers THEN 10 ELSE p + 1,
                   ![t].reg = IF kind = 0 THEN cur ELSE @,
                   ![t].files = IF kind = 2 THEN Append(@, <<c, cur>>) ELSE @]
             /\ viz_counter' = IF c = 1 THEN new ELSE viz_counter
             /\ match_counter' = IF c = 2 THEN new ELSE match_counter
             /\ inlier_counter' = IF c = 3 /\ (p # 7 \/ has_inliers)
                                  THEN new ELSE inlier_counter
    /\ UNCHANGED <<ppc, pcalls, pipeInputs, pipeEst, pipeGeom, pipeCanvas, pipeOut>>

(***************************************************************************)
(* StitchingPipeline::performSequentialStitching.  An input image is       *)
(* loaded or empty; a panorama is the set of the indices of the images it  *)
(* incorporates, and {} is the empty cv::Mat.  A pairwise stitch fails on  *)
(* an empty operand and otherwise succeeds or fails as the image contents  *)
(* decide.  Each loop iteration is one step.                               *)
(***************************************************************************)
VARIABLES seq_pc, seq_images, seq_middle, seq_i, seq_panorama, seq_stitches, seq_ret

seqVars == <<seq_pc, seq_images, seq_middle, seq_i, seq_panorama, seq_stitches, seq_ret>>

MaxImages == 5

SeqIdle ==
    /\ seq_pc = "idle"
    /\ seq_images = <<>>
    /\ seq_middle = 0
    /\ seq_i = 0
    /\ seq_panorama = {}
    /\ seq_stitches = <<>>
    /\ seq_ret = {}

\* images[i].clone(), i counted from 0 as in the code.
SeqClone(images, i) == IF images[i + 1] THEN {i} ELSE {}

\* The results performStitchingDirect can return for image i and a panorama.
SeqStitchResults(images, i, pano) ==
    IF ~ images[i + 1] \/ pano = {} THEN { {} } ELSE { {}, {i} \cup pano }

\* Lines 416-428: no image, one image, or the reference image is cloned.
SeqCall ==
    /\ driver = "sequential"
    /\ seq_pc = "idle"
    /\ \E n \in 0..MaxImages :
         \E images \in [1..n -> BOOLEAN] :
           /\ seq_images' = images
           /\ seq_middle' = n \div 2
           /\ seq_stitches' = <<>>
           /\ IF n = 0
              THEN seq_pc' = "returned" /\ seq_ret' = {}
                   /\ UNCHANGED <<seq_i, seq_panorama>>
              ELSE IF n = 1
              THEN seq_pc' = "returned" /\ seq_ret' = SeqClone(images, 0)
                   /\ UNCHANGED <<seq_i, seq_panorama>>
              ELSE /\ seq_pc' = "left"
                   /\ seq_panorama' = SeqClone(images, n \div 2)
                   /\ seq_i' = (n \div 2) - 1
                   /\ UNCHANGED seq_ret

\* Lines 430-452: one iteration of the left loop, and what follows it when
\* it is the last.
SeqLeft ==
    /\ driver = "sequential"
    /\ seq_pc = "left"
    /\ \E stitched \in SeqStitchResults(seq_images, seq_i, seq_panorama) :
         LET n     == Len(seq_images)
             right == seq_middle + 1 < n
         IN  /\ seq_stitches' = Append(seq_stitches,
                    [side |-> "left", image |-> seq_i,
                     panorama |-> seq_panorama, result |-> stitched])
             /\ IF stitched = {}
                THEN IF seq_i = 0 /\ right
                     THEN /\ seq_panorama' = SeqClone(seq_images, seq_middle)
                          /\ seq_pc' = "right"
                          /\ seq_i' = seq_middle + 1
                          /\ UNCHANGED seq_ret
                     ELSE /\ seq_pc' = "returned"
                          /\ seq_ret' = {}
                          /\ UNCHANGED <<seq_i, seq_panorama>>
                ELSE /\ seq_panorama' = stitched
                     /\ IF seq_i - 1 >= 0
                        THEN seq_i' = seq_i - 1 /\ UNCHANGED <<seq_pc, seq_ret>>
                        ELSE IF right
                        THEN seq_pc' = "right" /\ seq_i' = seq_middle + 1
                             /\ UNCHANGED seq_ret
                        ELSE seq_pc' = "returned" /\ seq_ret' = stitched
                             /\ UNCHANGED seq_i
    /\ UNCHANGED <<seq_images, seq_middle>>

\* Lines 454-475: one iteration of the right loop, and the return after the
\* last.
SeqRight ==
    /\ driver = "sequential"
    /\ seq_pc = "right"
    /\ \E stitched \in SeqStitchResults(seq_images, seq_i, seq_panorama) :
         LET n == Len(seq_images)
         IN  /\ seq_stitches' = Append(seq_stitches,
                    [side |-> "right", image |-> seq_i,
                     panorama |-> seq_panorama, result |-> stitched])
             /\ IF stitched = {}
                THEN /\ seq_pc' = "returned"
                     /\ seq_ret' = IF seq_i = n - 1 THEN seq_panorama ELSE {}
                     /\ UNCHANGED <<seq_i, seq_panorama>>
                ELSE /\ seq_panorama' = stitched
                     /\ IF seq_i + 1 < n
                        THEN seq_i' = seq_i + 1 /\ UNCHANGED <<seq_pc, seq_ret>>
                        ELSE seq_pc' = "returned" /\ seq_ret' = stitched
                             /\ UNCHANGED seq_i
    /\ UNCHANGED <<seq_images, seq_middle>>

(***************************************************************************)
(* ExperimentRunner's result list and ReportGenerator::exportToCSV.  An    *)
(* ExperimentResult is its configuration name, detector and inlier count   *)
(* (runSingleExperiment itself is modelled above); a CSV file is the       *)
(* sequence of its lines.                                                  *)
(***************************************************************************)
VARIABLES
    results_,            \* ExperimentRunner::results_
    experiments_run,     \* the results runSingleExperiment returned so far
    csv,                 \* the lines of the metrics file
    runner_last          \* the latest operation on the runner

runnerVars == <<results_, experiments_run, csv, runner_last>>

MaxExperiments == 3
MaxPairs == 1

\* ExperimentRunner::ExperimentRunner().
RunnerIdle ==
    /\ results_ = <<>>
    /\ experiments_run = <<>>
    /\ csv = <<>>
    /\ runner_last = "constructed"

\* What runSingleExperiment can return for a configuration name.
ExperimentResults(name) ==
    { [name |-> name, detector_type |-> d, max_features |-> 2000, num_inliers |-> k] :
        d \in {"orb", "akaze"}, k \in {0, 25} }

CSVHeader == <<"experiment", "detector", "num_inliers">>

\* ReportGenerator::writeCSVRow: the line written for one result.
writeCSVRow(r) == <<r.name, r.detector_type, r.num_inliers>>

\* A client calls runSingleExperiment (as tests/test_minimal.cpp does): the
\* result is returned and results_ is not touched.
RunSingleExperimentCall ==
    /\ driver = "runner"
    /\ Len(experiments_run) < MaxExperiments
    /\ \E r \in ExperimentResults("test_experiment") :
         experiments_run' = Append(experiments_run, r)
    /\ runner_last' = "single"
    /\ UNCHANGED <<results_, csv>>

\* runFeatureDetectorComparison: for every image pair of the dataset an
\* "orb" and an "akaze" experiment are run and their results pushed.
RunFeatureDetectorComparison ==
    /\ driver = "runner"
    /\ \E pairs \in 0..MaxPairs :
         /\ Len(experiments_run) + 2 * pairs <= MaxExperiments
         /\ \E rs \in [1..(2 * pairs) -> ExperimentResults("detector_comparison")] :
              /\ \A i \in 1..(2 * pairs) :
                    rs[i].detector_type = IF i % 2 = 1 THEN "orb" ELSE "akaze"
              /\ results_' = results_ \o rs
              /\ experiments_run' = experiments_run \o rs
    /\ runner_last' = "sweep"
    /\ UNCHANGED csv

\* exportMetricsToCSV: the file is opened (or cannot be) and rewritten with
\* the header and one row for each element of results_.
ExportMetricsToCSV ==
    /\ driver = "runner"
    /\ \E opened \in BOOLEAN :
         IF opened
         THEN /\ csv' = <<CSVHeader>> \o [i \in 1..Len(results_) |->
                                            writeCSVRow(results_[i])]
              /\ runner_last' = "exported"
         ELSE /\ runner_last' = "export_failed"
              /\ UNCHANGED csv
    /\ UNCHANGED <<results_, experiments_run>>

(***************************************************************************)
(* The feature budget of performStitchingDirect (lines 86-122).  An image  *)
(* is k/2 times the reference size in each direction, so the square root   *)
(* of its pixel ratio is exactly k/2.                                      *)
(***************************************************************************)
VARIABLES
    feat_pc,             \* "idle", "failed" or "set"
    feat_img1, feat_img2,    \* <<cols, rows>> of the two images
    feat_max_features,   \* the max_features argument
    adaptive_features1, adaptive_features2   \* the setMaxFeatures arguments

featVars == <<feat_pc, feat_img1, feat_img2, feat_max_features,
              adaptive_features1, adaptive_features2>>

MaxScaleStep == 8

DEFAULT_MAX_FEATURES == 50000
MIN_FEATURES == 10
MAX_FEATURES == 50000
REFERENCE_IMAGE_WIDTH == 2048
REFERENCE_IMAGE_HEIGHT == 1536

FeatIdle ==
    /\ feat_pc = "idle"
    /\ feat_img1 = <<REFERENCE_IMAGE_WIDTH, REFERENCE_IMAGE_HEIGHT>>
    /\ feat_img2 = <<REFERENCE_IMAGE_WIDTH, REFERENCE_IMAGE_HEIGHT>>
    /\ feat_max_features = DEFAULT_MAX_FEATURES
    /\ adaptive_features1 = 0
    /\ adaptive_features2 = 0

\* StitchingPipeline::calculateAdaptiveFeatures.  PANORAMA_SCALE_THRESHOLD
\* is 1.5; twice the scale factor is the k with (k/2)^2 = pixels/base, at
\* most 6; the cast to int truncates.
calculateAdaptiveFeatures(image_pixels, max_features) ==
    LET base_pixels == REFERENCE_IMAGE_HEIGHT * REFERENCE_IMAGE_WIDTH
        twice_scale == CHOOSE k \in 0..(2 * MaxScaleStep) :
                           k * k * (base_pixels \div 4) = image_pixels
    IN  IF 2 * image_pixels > 3 * base_pixels
        THEN (max_features * Min(twice_scale, 6)) \div 2
        ELSE max_features

\* Lines 86-122: max_features is validated, the combined size is checked,
\* the budgets are computed, the detectors are created and given them.
FeatureBudgetCall ==
    /\ driver = "features"
    /\ feat_pc = "idle"
    /\ LET max_features == IF feat_max_features < MIN_FEATURES
                              \/ feat_max_features > MAX_FEATURES
                           THEN DEFAULT_MAX_FEATURES ELSE feat_max_features
           img1_pixels == feat_img1[2] * feat_img1[1]
           img2_pixels == feat_img2[2] * feat_img2[1]
       IN  \E d \in DetectorTypes :
             IF img1_pixels + img2_pixels > MAX_IMAGE_PIXELS
                \/ d \notin {"orb", "akaze", "sift"}
             THEN feat_pc' = "failed"
                  /\ UNCHANGED <<adaptive_features1, adaptive_features2>>
             ELSE /\ feat_pc' = "set"
                  /\ adaptive_features1' =
                        calculateAdaptiveFeatures(img1_pixels, max_features)
                  /\ adaptive_features2' =
                        calculateAdaptiveFeatures(img2_pixels, max_features)
    /\ UNCHANGED <<feat_img1, feat_img2, feat_max_features>>

(***************************************************************************)
(* Specifications.  `driver` names the entry point the environment calls;  *)
(* the state of the other entry points stays as constructed.               *)
(***************************************************************************)
vars == <<driver, ransacVars, estVars, pipeVars, expVars, blendVars, conc, seqVars, runnerVars, featVars>>

\* The standalone estimator before its first call.
InitEstIdle ==
    /\ last_result_ = ZeroResult
    /\ inlier_matches = <<>>
    /\ est_matches = <<>>
    /\ est_ret = Empty
    /\ est_calls = 0
    /\ ransac_threshold_ = DEFAULT_RANSAC_THRESHOLD_CENTI
    /\ reprojection_threshold = 0

InitEstimation ==
    /\ driver \in {"ransac", "estimator"}
    /\ SeqIdle /\ RunnerIdle /\ FeatIdle
    /\ InitRansac
    /\ InitEst
    /\ InitPipe
    /\ InitExp
    /\ BlendIdle

NextEstimation ==
    \/ (RansacCallTooFew /\ UNCHANGED <<driver, conc, seqVars, runnerVars, featVars, estVars, pipeVars, expVars, blendVars>>)
    \/ (RansacCall /\ UNCHANGED <<driver, conc, seqVars, runnerVars, featVars, estVars, pipeVars, expVars, blendVars>>)
    \/ (RansacIterate /\ UNCHANGED <<driver, conc, seqVars, runnerVars, featVars, estVars, pipeVars, expVars, blendVars>>)
    \/ (RansacFinish /\ UNCHANGED <<driver, conc, seqVars, runnerVars, featVars, estVars, pipeVars, expVars, blendVars>>)
    \/ (RansacRepeat /\ UNCHANGED <<driver, conc, seqVars, runnerVars, featVars, estVars, pipeVars, expVars, blendVars>>)
    \/ (ComputeErrorCall /\ UNCHANGED <<driver, conc, seqVars, runnerVars, featVars, estVars, pipeVars, expVars, blendVars>>)
    \/ (SetRANSACThreshold /\ UNCHANGED <<driver, conc, seqVars, runnerVars, featVars, pipeVars, expVars, blendVars>>)
    \/ (EstCall /\ UNCHANGED <<driver, conc, seqVars, runnerVars, featVars, pipeVars, expVars, blendVars>>)

SpecEstimation == InitEstimation /\ [][NextEstimation]_vars

InitPipeline ==
    /\ driver \in {"pipeline", "experiment"}
    /\ SeqIdle /\ RunnerIdle /\ FeatIdle
    /\ InitRansac
    /\ InitEstIdle
    /\ InitPipe
    /\ InitExp
    /\ BlendIdle

NextPipeline ==
    \/ (PipeCall /\ UNCHANGED <<driver, conc, seqVars, runnerVars, featVars, ransacVars, estVars, expVars, blendVars>>)
    \/ (PipeDetect /\ UNCHANGED <<driver, conc, seqVars, runnerVars, featVars, ransacVars, estVars, expVars, blendVars>>)
    \/ (PipeEstimate /\ UNCHANGED <<driver, conc, seqVars, runnerVars, featVars, ransacVars, estVars, expVars, blendVars>>)
    \/ (PipeValidate /\ UNCHANGED <<driver, conc, seqVars, runnerVars, featVars, ransacVars, estVars, expVars, blendVars>>)
    \/ (PipeBounds /\ UNCHANGED <<driver, conc, seqVars, runnerVars, featVars, ransacVars, estVars, expVars, blendVars>>)
    \/ (PipeCheckCanvas /\ UNCHANGED <<driver, conc, seqVars, runnerVars, featVars, ransacVars, estVars, expVars, blendVars>>)
    \/ (PipeAllocate /\ UNCHANGED <<driver, conc, seqVars, runnerVars, featVars, ransacVars, estVars, expVars, blendVars>>)
    \/ (PipeWarp /\ UNCHANGED <<driver, conc, seqVars, runnerVars, featVars, ransacVars, estVars, expVars, blendVars>>)
    \/ (PipeBlend /\ UNCHANGED <<driver, conc, seqVars, runnerVars, featVars, ransacVars, estVars, expVars, blendVars>>)
    \/ (ExpRun /\ UNCHANGED <<driver, conc, seqVars, runnerVars, featVars, ransacVars, estVars, pipeVars, blendVars>>)
    \/ (ExpEstimate /\ UNCHANGED <<driver, conc, seqVars, runnerVars, featVars, ransacVars, estVars, pipeVars, blendVars>>)
    \/ (ExpWarp /\ UNCHANGED <<driver, conc, seqVars, runnerVars, featVars, ransacVars, estVars, pipeVars, blendVars>>)
    \/ (ExpBlend /\ UNCHANGED <<driver, conc, seqVars, runnerVars, featVars, ransacVars, estVars, pipeVars, blendVars>>)

SpecPipeline == InitPipeline /\ [][NextPipeline]_vars

InitBlending ==
    /\ driver = "blend"
    /\ SeqIdle /\ RunnerIdle /\ FeatIdle
    /\ InitRansac
    /\ InitEstIdle
    /\ InitPipe
    /\ InitExp
    /\ InitBlend

NextBlending ==
    \/ (SimpleOverlayCall /\ UNCHANGED <<driver, conc, seqVars, runnerVars, featVars, ransacVars, estVars, pipeVars, expVars>>)

SpecBlend == InitBlending /\ [][NextBlending]_vars

\* The feather and multi-band blenders.
InitBlenders ==
    /\ InitRansac /\ InitEstIdle /\ InitPipe /\ InitExp /\ SeqIdle /\ RunnerIdle /\ FeatIdle
    /\ \/ driver = "blend" /\ InitBlend
       \/ driver = "feather" /\ InitFeather
       \/ driver = "multiband" /\ InitMultiband

NextBlenders ==
    \/ (SimpleOverlayCall /\ UNCHANGED <<driver, conc, seqVars, runnerVars, featVars, ransacVars, estVars, pipeVars, expVars>>)
    \/ (MultibandBlendCall /\ UNCHANGED <<driver, conc, seqVars, runnerVars, featVars, ransacVars, estVars, pipeVars, expVars>>)
    \/ (FeatherBlendCall /\ UNCHANGED <<driver, conc, seqVars, runnerVars, featVars, ransacVars, estVars, pipeVars, expVars>>)

SpecBlenders == InitBlenders /\ [][NextBlenders]_vars

\* Two concurrent stitching calls.
InitConcurrent ==
    /\ driver = "concurrent"
    /\ SeqIdle /\ RunnerIdle /\ FeatIdle
    /\ InitRansac /\ InitEstIdle /\ InitPipe /\ InitExp /\ BlendIdle

NextConcurrent ==
    \/ (ConcurrentStep /\ UNCHANGED <<driver, seqVars, runnerVars, featVars, ransacVars, estVars, expVars, blendVars>>)

SpecConcurrent == InitConcurrent /\ [][NextConcurrent]_vars

\* Sequential stitching of several images.
InitSequential ==
    /\ driver = "sequential"
    /\ InitRansac /\ InitEstIdle /\ InitPipe /\ InitExp /\ BlendIdle /\ SeqIdle
    /\ RunnerIdle /\ FeatIdle

NextSequential ==
    \/ (SeqCall /\ UNCHANGED <<driver, conc, runnerVars, featVars, ransacVars, estVars, pipeVars, expVars, blendVars>>)
    \/ (SeqLeft /\ UNCHANGED <<driver, conc, runnerVars, featVars, ransacVars, estVars, pipeVars, expVars, blendVars>>)
    \/ (SeqRight /\ UNCHANGED <<driver, conc, runnerVars, featVars, ransacVars, estVars, pipeVars, expVars, blendVars>>)

SpecSequential == InitSequential /\ [][NextSequential]_vars

\* One experiment runner and its exports.
InitRunner ==
    /\ driver = "runner"
    /\ InitRansac /\ InitEstIdle /\ InitPipe /\ InitExp /\ BlendIdle /\ SeqIdle
    /\ RunnerIdle /\ FeatIdle

NextRunner ==
    \/ (RunSingleExperimentCall /\ UNCHANGED <<driver, conc, seqVars, featVars, ransacVars, estVars, pipeVars, expVars, blendVars>>)
    \/ (RunFeatureDetectorComparison /\ UNCHANGED <<driver, conc, seqVars, featVars, ransacVars, estVars, pipeVars, expVars, blendVars>>)
    \/ (ExportMetricsToCSV /\ UNCHANGED <<driver, conc, seqVars, featVars, ransacVars, estVars, pipeVars, expVars, blendVars>>)

SpecRunner == InitRunner /\ [][NextRunner]_vars

\* The feature budgets of one performStitchingDirect call.
InitFeatures ==
    /\ driver = "features"
    /\ InitRansac /\ InitEstIdle /\ InitPipe /\ InitExp /\ BlendIdle /\ SeqIdle
    /\ RunnerIdle
    /\ feat_pc = "idle"
    /\ \E k1 \in 1..MaxScaleStep, k2 \in 1..MaxScaleStep :
         /\ feat_img1 = <<(REFERENCE_IMAGE_WIDTH \div 2) * k1,
                          (REFERENCE_IMAGE_HEIGHT \div 2) * k1>>
         /\ feat_img2 = <<(REFERENCE_IMAGE_WIDTH \div 2) * k2,
                          (REFERENCE_IMAGE_HEIGHT \div 2) * k2>>
    /\ feat_max_features \in {-1, 9, 10, 2000, 16667, 50000, 50001}
    /\ adaptive_features1 = 0
    /\ adaptive_features2 = 0

NextFeatures ==
    \/ (FeatureBudgetCall /\ UNCHANGED <<driver, conc, seqVars, runnerVars, ransacVars, estVars, pipeVars, expVars, blendVars>>)

SpecFeatures == InitFeatures /\ [][NextFeatures]_vars

(***************************************************************************)
(* Properties                                                              *)
(***************************************************************************)
\* Number of true entries of a mask, counted independently of the model.
TrueEntries(mask) == Cardinality({i \in DOMAIN mask : mask[i] = TRUE})

RansacReturned == driver = "ransac" /\ rpc = "done" /\ result.called

\* C2: every sample drawn by findHomography, degenerate ones included,
\* consumes one of the M iterations, so a call never draws more than M samples.
C2_SamplesWithinCap ==
    (driver = "ransac" /\ rpc # "idle" /\ result.called = FALSE)
        => samples <= max_iterations_

\* C3: a call with fewer than 4 correspondences, or with lists of unequal
\* length, draws no sample and returns an empty homography with exactly 0 inliers.
C3_TooFewReturnsZeroInliers ==
    (RansacReturned /\ result.early)
        => /\ samples = 0
           /\ result.homography = Empty
           /\ result.num_inliers = 0

\* C4: when the model found by the loop had at least 4 inliers, the returned
\* model has at least 4 inliers too: a refinement that leaves fewer falls
\* back to the pre-refinement homography, mask and count.
C4_RefinementKeepsFourInliers ==
    (RansacReturned /\ ~ result.early /\ pre_refine.inliers >= 4)
        => \/ result.num_inliers >= 4
           \/ /\ result.homography = pre_refine.H
              /\ result.inlier_mask = pre_refine.mask
              /\ result.num_inliers = pre_refine.inliers

\* C5: for N >= 4 correspondences the inlier count of the result of
\* RANSAC::findHomography, and of the result stored by estimateHomography,
\* equals the number of true entries of its inlier mask and is at most N.
C5_InlierCountIsMaskCount ==
    /\ (RansacReturned /\ Len(points1) >= 4 /\ Len(points1) = Len(points2))
         => /\ result.num_inliers = TrueEntries(result.inlier_mask)
            /\ result.num_inliers <= Len(points1)
    /\ (driver = "estimator" /\ est_calls > 0 /\ Len(est_matches) >= 4)
         => /\ last_result_.num_inliers = TrueEntries(last_result_.inlier_mask)
            /\ last_result_.num_inliers <= Len(est_matches)

\* C5 witness: a call on five correspondences returned a refined model whose
\* mask, and so whose count, differs from the pre-refinement one.
C5_Witness ==
    /\ RansacReturned /\ ~ result.early
    /\ Len(points1) = 5
    /\ pre_refine.refined
    /\ result.inlier_mask # pre_refine.mask
    /\ result.num_inliers # pre_refine.inliers

\* The six conditions of a usable homography: non-empty, no NaN/Inf entry,
\* 0.001 <= |det| <= 1000, H[2][2] not (numerically) zero, both normalized
\* axis scales within [0.1, 10], at least 20 inliers.
PassesValidator(H, n) ==
    /\ H # Empty
    /\ \A k \in 1..9 : H[k] # NaN /\ H[k] # Inf
    /\ Abs(Det3(H)) >= 1 /\ Abs(Det3(H)) <= 1000
    /\ H[9] # 0
    /\ Sq(H[9]) <= 100 * (Sq(H[1]) + Sq(H[4])) /\ Sq(H[1]) + Sq(H[4]) <= 100 * Sq(H[9])
    /\ Sq(H[9]) <= 100 * (Sq(H[2]) + Sq(H[5])) /\ Sq(H[2]) + Sq(H[5]) <= 100 * Sq(H[9])
    /\ n >= 20

PipeWarped == warped1 # None \/ warped2 # None \/ warped_mask2 # None

\* C1: in performStitchingDirect the steps after the homography checks (the
\* warp and the blend) are reached only with a homography that is non-empty,
\* finite, has |det| in [0.001, 1000], a non-zero H[2][2], both axis scales
\* in [0.1, 10] and at least 20 inliers; when a check fails the call returns
\* an empty image and nothing has been warped.
C1_WarpOnlyWithValidHomography ==
    /\ [](ppc \in {"bounds", "check_canvas", "allocate", "warp", "blend"} \/ PipeWarped
            => PassesValidator(homography, ransac_result.num_inliers))
    /\ [][ppc = "validate" /\ ~ PassesValidator(homography, ransac_result.num_inliers)
            => ppc' = "returned" /\ ret' = EmptyMat /\ ~ PipeWarped']_vars

C1_Witness ==
    /\ ppc = "blend"
    /\ warped1 # None /\ warped2 # None
    /\ homography = <<2, 0, -150, 0, 2, 0, 0, 0, 1>>
    /\ ransac_result.num_inliers = 20
    /\ \E f \in failed_returns : f[1] = "TooFewInliers"

FailureReasons ==
    {"EmptyInput", "WrongType", "TooSmall", "TooManyPixels", "DetectorError",
     "NoHomography", "NonFinite", "BadDeterminant", "SingularH22", "BadScale",
     "TooFewInliers", "NegativeSize", "CanvasTooLarge", "MemoryExceeded"}

C7_EveryWarpUsesValidatedHomography ==
    /\ warped2 # None => PassesValidator(homography, ransac_result.num_inliers)
    /\ e_warped2 # None => PassesValidator(e_homography, e_ransac_result.num_inliers)

\* The canvas size stays within the dimension limit and the memory budget:
\* width * height * 3 * 2 <= 2^31 bytes.
CanvasWithinLimits(size, maxdim) ==
    /\ size[1] <= maxdim /\ size[2] <= maxdim
    /\ size[1] * size[2] <= 357913941

PipeAllocated == panorama # None \/ mask1 # None \/ mask2 # None \/ PipeWarped

\* C8: in performStitchingDirect the canvas, the masks and the warped images
\* exist only after the dimension check and the memory check have passed;
\* when the computed canvas exceeds either limit the call returns a failure
\* and nothing has been allocated.
C8_SizeChecksBeforeAllocation ==
    /\ [](PipeAllocated => CanvasWithinLimits(panorama_size, max_panorama_dimension))
    /\ [][ppc = "check_canvas"
            /\ ~ CanvasWithinLimits(panorama_size, max_panorama_dimension)
            => ppc' = "returned" /\ ret' = EmptyMat /\ ~ PipeAllocated'
               /\ stderr_msg' \in {"CanvasTooLarge", "MemoryExceeded"}]_vars

C8_Witness ==
    /\ ppc = "returned" /\ ret = EmptyMat /\ stderr_msg = "CanvasTooLarge"
    /\ ~ PipeAllocated
    /\ \E f \in failed_returns : f[1] = "MemoryExceeded"

\* C9: with the identity homography and two images of equal size W x H the
\* canvas is (W + 2*padding) x (H + 2*padding) and image A sits in it with
\* the padding on every side: the pixel <<x + padding, y + padding>> of
\* warped image A is image A's pixel <<x, y>>.
C9_SymmetricPaddingRecoversA ==
    ppc = "blend" /\ homography = Identity3
        /\ img1.cols = img2.cols /\ img1.rows = img2.rows
    => /\ panorama_size = <<img1.cols + 2 * PANORAMA_PADDING,
                            img1.rows + 2 * PANORAMA_PADDING>>
       /\ warped1.cols = panorama_size[1] /\ warped1.rows = panorama_size[2]
       /\ \A x \in 0..(img1.cols - 1), y \in 0..(img1.rows - 1) :
            WarpedPixel(warped1, x + PANORAMA_PADDING, y + PANORAMA_PADDING)
                = <<"img1", x, y>>

\* C10: for same-sized, same-typed inputs Blender::simpleOverlay returns an
\* image of that size and type whose pixel is image B's wherever mask B is
\* nonzero and image A's everywhere else, whatever mask A holds.
C10_SimpleOverlayPixels ==
    bpc = "returned"
        /\ b_img1.cols = b_img2.cols /\ b_img1.rows = b_img2.rows
        /\ b_img1.type = b_img2.type
    => /\ b_result.cols = b_img1.cols /\ b_result.rows = b_img1.rows
       /\ b_result.type = b_img1.type
       /\ \A k \in 1..(b_img1.cols * b_img1.rows) :
            /\ b_mask2.px[k] # 0 => b_result.px[k] = b_img2.px[k]
            /\ b_mask2.px[k] = 0 => b_result.px[k] = b_img1.px[k]

C10_Witness ==
    /\ bpc = "returned"
    /\ b_img1.type = b_img2.type
    /\ b_img1.px = <<0, 0>> /\ b_img2.px = <<255, 255>>
    /\ b_mask1.px = <<255, 0>> /\ b_mask2.px = <<0, 255>>
    /\ b_result.px = <<0, 255>>


(***************************************************************************)
(* Blender::featherBlend and Blender::multibandBlend.                      *)
(***************************************************************************)
FeatherReturned == driver = "feather" /\ bpc = "returned" /\ b_result # EmptyMat

\* The pixels where the two weights are equal and not zero.
EqualWeightPixels ==
    { k \in 1..Len(b_img1.px) :
        /\ FeatherWeight(b_mask1, k, feather_radius) # 0
        /\ FeatherWeight(b_mask1, k, feather_radius)
             = FeatherWeight(b_mask2, k, feather_radius) }

\* C11: where the two clamped, normalized weights of featherBlend are equal
\* and nonzero, the output pixel is the arithmetic mean of the two source
\* pixels, up to the rounding to 8 bits (twice the output is within one of
\* the sum of the two sources).
C11_EqualWeightsGiveMean ==
    FeatherReturned =>
        \A k \in EqualWeightPixels :
            Abs(2 * b_result.px[k] - (b_img1.px[k] + b_img2.px[k])) <= 1

\* An equidistant pixel below the clamp, with different source values.
C11_Witness ==
    /\ FeatherReturned
    /\ feather_radius > 0
    /\ \E k \in EqualWeightPixels :
         /\ FeatherWeight(b_mask1, k, feather_radius) < 1000 * feather_radius
         /\ b_img1.px[k] # b_img2.px[k]

MultibandReturned == driver = "multiband" /\ bpc = "returned"

BlendMismatch ==
    <<b_img1.cols, b_img1.rows>> # <<b_img2.cols, b_img2.rows>> \/ b_img1.type # b_img2.type

\* C13: simpleOverlay, featherBlend and multibandBlend return an empty image
\* when the two images differ in size or in type, and multibandBlend then
\* builds no pyramid and leaves its depth alone.
C13_MismatchReturnsEmpty ==
    [][bpc' = "returned" /\ BlendMismatch =>
          b_result' = EmptyMat /\ mb' = Empty /\ num_bands' = num_bands]_vars

\* multibandBlend returned from two images of one size and different types.
C13_Witness ==
    /\ MultibandReturned
    /\ <<b_img1.cols, b_img1.rows>> = <<b_img2.cols, b_img2.rows>>
    /\ b_img1.type # b_img2.type
    /\ b_result = EmptyMat

MultibandBuilt == MultibandReturned /\ mb # Empty

\* C16: in a multibandBlend call that builds its pyramids, the two image
\* pyramids and the two mask pyramids have as many levels as the depth the
\* blend loop uses, and the pyramid handed to the reconstruction is not
\* empty.
C16_PyramidsHaveLoopDepth ==
    MultibandBuilt =>
        /\ Len(mb.pyramid1) = num_bands /\ Len(mb.pyramid2) = num_bands
        /\ Len(mb.mask_pyramid1) = num_bands /\ Len(mb.mask_pyramid2) = num_bands
        /\ Len(mb.blended_pyramid) >= 1

\* C17: the depth multibandBlend uses is the requested one when
\* rows*cols*3*4*2*depth is within 1 GiB, and otherwise at most the
\* requested one and at least 3.
C17_MemoryGuardReducesDepth ==
    MultibandBuilt =>
        IF b_img1.rows * b_img1.cols * mb.requested > 1073741824 \div 24
        THEN num_bands <= mb.requested /\ num_bands >= 3
        ELSE num_bands = mb.requested

(***************************************************************************)
(* RANSAC::findHomography: repeated calls and the loop's bookkeeping.      *)
(***************************************************************************)
RansacReturnedTwice == rpc = "done" /\ first_run # NoResult

\* C14: a second findHomography call with the same correspondences,
\* threshold, confidence and iteration cap returns the same homography,
\* inlier mask, inlier count and iteration count as the first (the library's
\* refinement taken to answer alike for alike loop outcomes).
C14_RepeatedRunSameResult ==
    RansacReturnedTwice /\ (pre_refine = first_run.pre => result = first_run.result)
        => result = first_run.result

\* C19: once an improving candidate has set min(cap, M'), that bound controls
\* the loop: a pass of the loop starts only while the iteration count is
\* below it, so the count never exceeds the bound by the loop test.
C19_LoopObeysLoweredBound ==
    [][rpc = "loop" /\ samples' = samples + 1 => iterations < max_iterations]_vars

\* The inlier count of the i-th candidate evaluated by the running call.
CandidateInliers(i) ==
    CountTrue(findInliers(evaluated[i], points1, points2, threshold))

\* C20: at every iteration boundary of the loop best_inliers is the largest
\* inlier count among the candidates evaluated so far (0 when there is
\* none), best_H and best_mask are those of the earliest candidate with
\* that count, and a pass of the loop never lowers best_inliers.
C20_BestIsEarliestMaximum ==
    /\ [](rpc = "loop" =>
            /\ \A i \in 1..Len(evaluated) : CandidateInliers(i) <= best_inliers
            /\ IF best_inliers = 0
               THEN best_H = Empty
               ELSE \E i \in 1..Len(evaluated) :
                      /\ CandidateInliers(i) = best_inliers
                      /\ \A j \in 1..(i - 1) : CandidateInliers(j) < best_inliers
                      /\ best_H = evaluated[i]
                      /\ best_mask = findInliers(evaluated[i], points1, points2, threshold))
    /\ [][rpc = "loop" /\ rpc' = "loop" => best_inliers' >= best_inliers]_vars

\* A later candidate has tied the best count and the earlier one is kept.
C20_Witness ==
    /\ rpc = "loop"
    /\ \E i, j \in 1..Len(evaluated) :
         /\ i < j
         /\ evaluated[i] # evaluated[j]
         /\ CandidateInliers(i) = best_inliers
         /\ CandidateInliers(j) = best_inliers
         /\ best_H = evaluated[i]

\* C18: whenever estimateHomography has run an estimation, the reprojection
\* threshold it used lies within [0.1, 50] pixels: a configured value
\* outside that range was replaced by the default.
C18_ThresholdWithinRange ==
    est_calls > 0 /\ Len(est_matches) >= 4 =>
        /\ reprojection_threshold >= MIN_RANSAC_THRESHOLD_CENTI
        /\ reprojection_threshold <= MAX_RANSAC_THRESHOLD_CENTI

(***************************************************************************)
(* Concurrent performStitchingDirect calls.                                *)
(***************************************************************************)
\* The counter the next step of call t accesses (0 when past them), and
\* whether that step writes it.
NextAccess(t) == IF conc[t].pc <= 9 THEN ((conc[t].pc - 1) \div 3) + 1 ELSE 0
NextWrites(t) == conc[t].pc <= 9 /\ (conc[t].pc - 1) % 3 = 1

\* C15: two concurrent performStitchingDirect calls never are about to
\* access one variable with one of them writing it, and no file one call
\* wrote has the name of a file the other wrote (as in every sequential
\* order of the calls, where each call draws its own indices).
C15_ConcurrentCallsShareNothing ==
    /\ ~ (NextAccess(1) # 0 /\ NextAccess(1) = NextAccess(2)
            /\ (NextWrites(1) \/ NextWrites(2)))
    /\ \A i \in 1..Len(conc[1].files), j \in 1..Len(conc[2].files) :
         conc[1].files[i] # conc[2].files[j]

\* The projected denominator of the i-th pair under the returned homography.
ResultDenominator(i) ==
    result.homography[7]*points1[i][1] + result.homography[8]*points1[i][2]
        + result.homography[9]

\* C21: after findHomography returned a homography, a pair whose projected
\* denominator vanishes is not an inlier of the returned mask, and no mean
\* reprojection error reported for that homography is Inf or NaN: such a
\* pair is left out of the mean.
C21_VanishingDenominatorExcluded ==
    rpc = "done" /\ ~ result.early /\ result.homography # Empty =>
        /\ \A i \in 1..Len(points1) :
              ResultDenominator(i) = 0 => ~ result.inlier_mask[i]
        /\ reprojection_error # "not_finite"

\* The pixels outside both masks: both feather weights are zero there.
ZeroWeightPixels ==
    { k \in 1..Len(b_img1.px) :
        /\ FeatherWeight(b_mask1, k, feather_radius) = 0
        /\ FeatherWeight(b_mask2, k, feather_radius) = 0 }

\* C22: featherBlend returns a black pixel wherever both weights are zero:
\* the zero weight sum is replaced before the division, so the quotient is
\* 0 whatever the two source pixels hold.
C22_ZeroWeightsGiveBlack ==
    FeatherReturned => \A k \in ZeroWeightPixels : b_result.px[k] = 0

C22_Witness ==
    /\ FeatherReturned
    /\ \E k \in ZeroWeightPixels : b_img1.px[k] # 0 /\ b_img2.px[k] # 0
    /\ \E k \in 1..Len(b_img1.px) : k \notin ZeroWeightPixels

(***************************************************************************)
(* Sequential stitching.                                                   *)
(***************************************************************************)
\* The panorama that the successful stitches before the k-th have built:
\* the result of the latest of them, or the reference image alone.
AccumulatedBefore(k) ==
    LET done == { j \in 1..(k - 1) : seq_stitches[j].result # {} }
    IN  IF done = {} THEN SeqClone(seq_images, seq_middle)
        ELSE seq_stitches[CHOOSE j \in done : \A h \in done : h <= j].result

\* C23: the stitches go from the image left of the middle one down to image
\* 0 and then from the image right of the middle one upwards; each stitch
\* has the panorama built by the successful stitches before it as an
\* operand, and no image other than the reference is stitched twice.
C23_ChainFromMiddle ==
    \A k \in 1..Len(seq_stitches) :
        LET s == seq_stitches[k]
        IN  /\ IF k = 1
               THEN s.side = "left" /\ s.image = seq_middle - 1
               ELSE LET p == seq_stitches[k - 1]
                    IN  \/ p.side = "left" /\ s.side = "left" /\ s.image = p.image - 1
                        \/ p.side = "left" /\ s.side = "right"
                              /\ s.image = seq_middle + 1
                        \/ p.side = "right" /\ s.side = "right"
                              /\ s.image = p.image + 1
            /\ s.panorama = AccumulatedBefore(k)
            /\ s.image # seq_middle
            /\ \A j \in 1..Len(seq_stitches) : j # k => seq_stitches[j].image # s.image

\* C24: a non-empty panorama returned by performSequentialStitching holds
\* every image whose pairwise stitch succeeded during the call.
C24_MergedImagesKept ==
    seq_pc = "returned" /\ seq_ret # {} =>
        \A k \in 1..Len(seq_stitches) :
            seq_stitches[k].result # {} => seq_stitches[k].image \in seq_ret

\* C25: for two or more images, a non-empty panorama returned by
\* performSequentialStitching is the result of a successful pairwise stitch
\* of the call.
C25_ResultIsAStitch ==
    seq_pc = "returned" /\ Len(seq_images) >= 2 /\ seq_ret # {} =>
        \E k \in 1..Len(seq_stitches) : seq_stitches[k].result = seq_ret

(***************************************************************************)
(* The estimator's outputs after its latest call.                          *)
(***************************************************************************)
EstValid == ValidIndices(est_matches, NumKeypoints, NumKeypoints)

\* C26: after a call that returned an empty homography for fewer than 4
\* matches or fewer than 4 valid point pairs, getLastResult() has an empty
\* homography and 0 inliers and inlier_matches is empty.
C26_OutputsDescribeLatestCall ==
    driver = "estimator" /\ est_calls > 0
        /\ (Len(est_matches) < 4 \/ Cardinality(EstValid) < 4) =>
            /\ last_result_.homography = Empty
            /\ last_result_.num_inliers = 0
            /\ inlier_matches = <<>>

\* The matches whose point pair the estimation classified as an inlier: the
\* j-th point pair comes from the j-th match with in-range indices.
EstInlierMatches ==
    LET rank(i) == Cardinality({ v \in EstValid : v <= i })
        mask == last_result_.inlier_mask
    IN  SelectIdx(est_matches,
                  [i \in 1..Len(est_matches) |->
                      i \in EstValid /\ rank(i) <= Len(mask) /\ mask[rank(i)]], 1)

\* C27: after a call that ran the estimation, inlier_matches holds exactly
\* the matches whose point pair was classified as an inlier, also when
\* matches with out-of-range indices were skipped.
C27_InliersAreTheirMatches ==
    driver = "estimator" /\ est_calls > 0
        /\ Len(est_matches) >= 4 /\ Cardinality(EstValid) >= 4 =>
            inlier_matches = EstInlierMatches

(***************************************************************************)
(* The exported metrics and the feature budget.                            *)
(***************************************************************************)
\* C28: a CSV file just exported holds, after its header, one row for every
\* experiment run on the runner since its construction, each holding that
\* experiment's metrics; the experiment of a runSingleExperiment call
\* before the export is among them.
C28_ExportHoldsEveryExperiment ==
    runner_last = "exported" =>
        csv = <<CSVHeader>> \o [i \in 1..Len(experiments_run) |->
                                   writeCSVRow(experiments_run[i])]

\* C29: whenever a performStitchingDirect call writes its after-RANSAC
\* picture (inlier_counter advances), the three counters that number the
\* keypoint, before-RANSAC and after-RANSAC pictures are equal, so the
\* three files of the call carry one index.
C29_PicturesShareIndex ==
    [][inlier_counter' # inlier_counter =>
          viz_counter' = match_counter' /\ match_counter' = inlier_counter']_vars

\* C30: the feature budgets performStitchingDirect passes to setMaxFeatures
\* do not exceed MAX_FEATURES.
C30_BudgetWithinHardLimit ==
    feat_pc = "set" =>
        adaptive_features1 <= MAX_FEATURES /\ adaptive_features2 <= MAX_FEATURES

=============================================================================
